---- MODULE Spec2Model ----
(***************************************************************************)
(* Model of the document-to-3D generation backend (bajajku/Backend):       *)
(* the asset matcher, the narration generator, the audio synthesizer, the  *)
(* artifact assembler and the two request handlers that sequence them.     *)
(*                                                                         *)
(* Strings are modelled as sequences of tokens; every token is the literal *)
(* piece of text it stands for, so the concrete string is the              *)
(* concatenation of the tokens.  The only exceptions are FENCE and         *)
(* FENCE_HTML, which stand for the markdown code fence (three backquotes)  *)
(* and the fence followed by the word html.                                *)
(***************************************************************************)
EXTENDS Integers, Sequences, FiniteSets, TLC

VARIABLES
    pc,              \* position of the running call / request handler
    endpoint,        \* "v1" (/generate), "v2" (/generate-v2) or "unit"
    llm_raw,         \* what llm.generate does for generate_html
    html_result,     \* outcome of generate_html
    analysis,        \* ContentAnalysis (or ConceptGraph in v2)
    manifest,        \* ModelManifest.models
    max_models,      \* match_models' max_models argument
    models,          \* list[MatchedModel]
    narrations,      \* dict[str, str], insertion ordered
    narr_i,          \* loop position of generate_narrations
    api_key,         \* settings.elevenlabs_api_key
    audio_urls,      \* dict[str, str] built by synthesize_audio
    synth_i,         \* loop position of synthesize_audio
    audio_result,    \* value returned by synthesize_audio
    stored,          \* set of file names written through upload_audio
    manifest_cache,  \* Services._manifest_cache
    upload,          \* the uploaded file: declared media type and length
    tmp_file,        \* "none" | "exists" | "removed"
    started,         \* sequence of the stages that have been started
    response,        \* what leaves the request handler
    attachment,      \* file name of the Content-Disposition header
    attempts,        \* synthesize_audio: the items tried so far, with what happened
    llm_calls,       \* number of calls made to the text-generation collaborator
    analysis_result, \* outcome of analyze_content / extract_concept_graph
    manifest_calls,  \* the finished Services.get_manifest calls, oldest first
    narration_calls, \* generate_narrations: the collaborator calls made, in order
    in_flight,       \* synthesize_audio: ids whose synthesis request has been sent and not answered
    _services,       \* generate.py line 47: the module global, 0 for None, else the number of a Services object
    caches,          \* the _manifest_cache of every Services object created so far
    reqs,            \* concurrent requests: position, Services object received, results
    running,         \* the request whose coroutine holds the event loop, 0 when the loop is free
    loads,           \* loads asked of the storage collaborator, in order of issue
    audio_files,     \* storage: file name to the audio last written under it
    local_mode       \* settings.local_mode (config.py line 19): files under local_models, or the bucket

vars == <<pc, endpoint, llm_raw, html_result, analysis, manifest, max_models,
          models, narrations, narr_i, api_key, audio_urls, synth_i,
          audio_result, stored, manifest_cache, upload, tmp_file, started,
          response, attachment, attempts, llm_calls, analysis_result,
          manifest_calls,
          narration_calls,
          in_flight,
          _services,
          caches,
          reqs,
          running,
          loads,
          audio_files,
          local_mode>>

----------------------------------------------------------------------------
(* Bounds of the explored inputs.                                          *)

MaxHtmlLen == 4
MaxCatalog == 3
MaxK == 2
MaxItems == 3
MaxCalls == 3
MaxTitleLen == 3

----------------------------------------------------------------------------
(* Generic sequence helpers (Python str / list primitives).                *)

Front(s) == SubSeq(s, 1, Len(s) - 1)

Last(s) == s[Len(s)]

Range(s) == {s[i] : i \in 1..Len(s)}

SeqsUpTo(S, n) == UNION {[1..k -> S] : k \in 0..n}

\* str.find(tok): first position of tok, 0 when absent (Python: -1)
Find(s, tok) ==
    IF \E i \in 1..Len(s) : s[i] = tok
    THEN CHOOSE i \in 1..Len(s) : s[i] = tok /\ \A j \in 1..(i - 1) : s[j] # tok
    ELSE 0

\* str.rfind(tok): last position of tok, 0 when absent (Python: -1)
RFind(s, tok) ==
    IF \E i \in 1..Len(s) : s[i] = tok
    THEN CHOOSE i \in 1..Len(s) : s[i] = tok /\ \A j \in (i + 1)..Len(s) : s[j] # tok
    ELSE 0

\* str.count(tok)
Count(s, tok) == Cardinality({i \in 1..Len(s) : s[i] = tok})

\* tok in str
Contains(s, tok) == \E i \in 1..Len(s) : s[i] = tok

StartsWith(s, tok) == Len(s) > 0 /\ s[1] = tok

EndsWith(s, tok) == Len(s) > 0 /\ s[Len(s)] = tok

Whitespace == {" ", "\n"}

RECURSIVE LStrip(_)
LStrip(s) == IF Len(s) > 0 /\ s[1] \in Whitespace THEN LStrip(Tail(s)) ELSE s

RECURSIVE RStrip(_)
RStrip(s) == IF Len(s) > 0 /\ s[Len(s)] \in Whitespace THEN RStrip(Front(s)) ELSE s

\* str.strip()
Strip(s) == RStrip(LStrip(s))

----------------------------------------------------------------------------
(* Artifact assembler: generate_html (html_generator.py).                  *)

DOCTYPE == "<!DOCTYPE html>"
HTML_CLOSE == "</html>"
FENCE == "[fence]"
FENCE_HTML == "[fence]html"

HtmlTokens == {DOCTYPE, "<html>", HTML_CLOSE, "<body>", "</body>",
               "<script>", "</script>", FENCE_HTML, FENCE, " ", "x"}

RawTexts == SeqsUpTo(HtmlTokens, MaxHtmlLen)

LLMOutcomes == {[raises |-> TRUE, text |-> <<>>]}
                 \cup {[raises |-> FALSE, text |-> t] : t \in RawTexts}

HtmlReturn(h) == [kind |-> "return", exc |-> "", html |-> h]

HtmlRaise(e) == [kind |-> "raise", exc |-> e, html |-> <<>>]

NoResult == [kind |-> "none", exc |-> "", html |-> <<>>]

\* lines 172-180: strip, drop a leading code fence and a trailing code fence
StripFences(t) ==
    LET h0 == Strip(t)
        h1 == IF StartsWith(h0, FENCE_HTML) THEN Tail(h0)
              ELSE IF StartsWith(h0, FENCE) THEN Tail(h0)
              ELSE h0
        h2 == IF EndsWith(h1, FENCE) THEN Front(h1) ELSE h1
    IN  Strip(h2)

\* lines 201-207: the closing tags appended to a truncated document
Repairs(h) ==
    (IF Contains(h, "<script>") /\ Count(h, "<script>") > Count(h, "</script>")
        THEN <<"\n", "</script>">> ELSE <<>>)
    \o (IF Contains(h, "<body>") /\ ~Contains(h, "</body>")
        THEN <<"\n", "</body>">> ELSE <<>>)
    \o (IF Contains(h, "<html>") /\ ~Contains(h, HTML_CLOSE)
        THEN <<"\n", HTML_CLOSE>> ELSE <<>>)

\* variant: a document without the closing token is rejected, never repaired
CloseDocumentNoRepair(h) ==
    IF EndsWith(RStrip(h), HTML_CLOSE) THEN HtmlReturn(h)
    ELSE IF RFind(h, HTML_CLOSE) # 0
         THEN HtmlReturn(SubSeq(h, 1, RFind(h, HTML_CLOSE)))
    ELSE HtmlRaise("HTMLGenerationError")

\* lines 193-215: locate or repair the closing token
CloseDocument(h) ==
    IF EndsWith(RStrip(h), HTML_CLOSE) THEN HtmlReturn(h)
    ELSE IF RFind(h, HTML_CLOSE) # 0
         THEN HtmlReturn(SubSeq(h, 1, RFind(h, HTML_CLOSE)))
    ELSE IF Repairs(h) # <<>> THEN HtmlReturn(h \o Repairs(h))
    ELSE HtmlRaise("HTMLGenerationError")

\* variant: the collaborator's exception is not wrapped
generate_html_unwrapped(llm) ==
    IF llm.raises THEN HtmlRaise("Exception")
    ELSE LET h == StripFences(llm.text)
         IN  IF StartsWith(h, DOCTYPE) THEN CloseDocument(h)
             ELSE IF Find(h, DOCTYPE) # 0
                  THEN CloseDocument(SubSeq(h, Find(h, DOCTYPE), Len(h)))
             ELSE HtmlRaise("HTMLGenerationError")

\* lines 166-221
generate_html(llm) ==
    IF llm.raises THEN HtmlRaise("HTMLGenerationError")
    ELSE LET h == StripFences(llm.text)
         IN  IF StartsWith(h, DOCTYPE) THEN CloseDocument(h)
             ELSE IF Find(h, DOCTYPE) # 0
                  THEN CloseDocument(SubSeq(h, Find(h, DOCTYPE), Len(h)))
             ELSE HtmlRaise("HTMLGenerationError")

----------------------------------------------------------------------------
(* Asset matcher: match_models (matching.py).                              *)

\* str.lower() on the vocabulary of the explored inputs
LowerTable ==
    ("Heart" :> "heart") @@ ("Anatomy" :> "anatomy") @@ ("Biology" :> "biology")
    @@ ("Cell" :> "cell") @@ ("Human" :> "human") @@ ("Model" :> "model")

Lower(w) == IF w \in DOMAIN LowerTable THEN LowerTable[w] ELSE w

\* str.lower() of a multi-word string
LowerStr(s) == [i \in 1..Len(s) |-> Lower(s[i])]

\* str.split(): the words between runs of whitespace
Split(s) == {s[i] : i \in {j \in 1..Len(s) : s[j] \notin Whitespace}}

\* variant: the analysis terms are used as they are written
search_terms_as_written(a) ==
    Range(a.suggested_model_keywords) \cup Range(a.main_topics)
    \cup {a.subject_area} \cup {c.name : c \in Range(a.key_concepts)}

\* lines 35-43
search_terms(a) ==
    {Lower(t) : t \in Range(a.suggested_model_keywords)}
    \cup {Lower(t) : t \in Range(a.main_topics)}
    \cup {Lower(a.subject_area)}
    \cup {Lower(c.name) : c \in Range(a.key_concepts)}

\* variant: the category is left out of the entry's keyword terms
model_terms_keywords_only(m) == {Lower(kw) : kw \in Range(m.keywords)}

\* lines 49-51
model_terms(m) == {Lower(kw) : kw \in Range(m.keywords)} \cup {Lower(m.category)}

\* line 54
model_name_words(m) == Split(LowerStr(m.name))

\* line 55
model_desc_words(m) == Split(LowerStr(m.description))

\* variant: the category is compared without lower-casing
CategoryBonusCaseSensitive(a, m) == IF m.category = a.subject_area THEN 5 ELSE 0

\* variant: the bonus is granted to every entry
CategoryBonusAlways(a, m) == 5

\* lines 66-67: the subject area / category bonus
CategoryBonus(a, m) == IF Lower(m.category) = Lower(a.subject_area) THEN 5 ELSE 0

\* lines 58-67
Score(a, m) ==
    Cardinality(search_terms(a) \cap model_terms(m)) * 3
    + Cardinality(search_terms(a) \cap model_name_words(m)) * 2
    + Cardinality(search_terms(a) \cap model_desc_words(m))
    + CategoryBonus(a, m)

\* lines 70-78
MatchedModel(m, sc) ==
    [id |-> m.id, url |-> m.url, name |-> m.name, description |-> m.description,
     keywords |-> m.keywords, category |-> m.category, score |-> sc]

\* variant: the filter is score >= 0, so entries scoring 0 are kept
RECURSIVE ScoredModelsKeepZero(_, _)
ScoredModelsKeepZero(a, ms) ==
    IF ms = <<>> THEN <<>>
    ELSE LET m == Head(ms)
             sc == Score(a, m)
         IN  (IF sc >= 0 THEN << <<sc, MatchedModel(m, sc)>> >> ELSE <<>>)
             \o ScoredModelsKeepZero(a, Tail(ms))

\* lines 47-79: the (score, MatchedModel) pairs of the entries scoring above 0
RECURSIVE ScoredModels(_, _)
ScoredModels(a, ms) ==
    IF ms = <<>> THEN <<>>
    ELSE LET m == Head(ms)
             sc == Score(a, m)
         IN  (IF sc > 0 THEN << <<sc, MatchedModel(m, sc)>> >> ELSE <<>>)
             \o ScoredModels(a, Tail(ms))

\* variant: an unstable sort, x goes in front of the pairs with an equal key
InsertDescUnstable(sorted, x) ==
    LET n == Cardinality({i \in 1..Len(sorted) : sorted[i][1] > x[1]})
    IN  SubSeq(sorted, 1, n) \o <<x>> \o SubSeq(sorted, n + 1, Len(sorted))

\* one step of list.sort(key=score, reverse=True): x goes behind every pair
\* whose key is not smaller, so equal keys keep their order
InsertDesc(sorted, x) ==
    LET n == Cardinality({i \in 1..Len(sorted) : sorted[i][1] >= x[1]})
    IN  SubSeq(sorted, 1, n) \o <<x>> \o SubSeq(sorted, n + 1, Len(sorted))

\* line 82
RECURSIVE SortDesc(_)
SortDesc(s) == IF s = <<>> THEN <<>> ELSE InsertDesc(SortDesc(Front(s)), Last(s))

\* line 85: s[:k], Python slice semantics
SlicePrefix(s, k) ==
    IF k >= 0 THEN SubSeq(s, 1, IF k < Len(s) THEN k ELSE Len(s))
    ELSE SubSeq(s, 1, IF Len(s) + k > 0 THEN Len(s) + k ELSE 0)

\* lines 11-93
match_models(a, ms, k) ==
    LET top == SlicePrefix(SortDesc(ScoredModels(a, ms)), k)
    IN  [i \in 1..Len(top) |-> top[i][2]]

\* matching.py line 14: max_models: int = 5
DEFAULT_MAX_MODELS == 5

(* Explored catalogs and analyses.                                         *)

KeywordLists == {<<"heart", "cardiac">>, <<"Anatomy", "Cell">>}

Categories == {"anatomy", "Anatomy", "Biology"}

NameDescs ==
    {[name |-> <<"Model">>, description |-> <<"a", " ", "model">>],
     [name |-> <<"Human", " ", "Heart">>,
      description |-> <<"the", " ", "heart", " ", "cell">>]}

EntryBodies ==
    {[keywords |-> kw, category |-> c, name |-> nd.name,
      description |-> nd.description] :
        kw \in KeywordLists, c \in Categories, nd \in NameDescs}

ModelIds == <<"m1", "m2", "m3", "m4", "m5">>

\* a manifest: entry i carries the id ModelIds[i] (ids are unique)
ModelInfo(i, b) ==
    [id |-> ModelIds[i], url |-> <<"/models/", ModelIds[i], ".glb">>,
     name |-> b.name, keywords |-> b.keywords, category |-> b.category,
     description |-> b.description]

Manifests ==
    {[i \in 1..Len(bs) |-> ModelInfo(i, bs[i])] : bs \in SeqsUpTo(EntryBodies, MaxCatalog)}

\* analysis.py lines 29-40: subject_area is one of a closed lower-case list
SubjectAreas == {"anatomy", "physics"}

\* topics and key concepts of an analysed document
TopicSets ==
    {[main_topics |-> <<>>, key_concepts |-> <<>>],
     [main_topics |-> <<"biology">>, key_concepts |-> <<[name |-> "Heart"]>>]}

Analyses ==
    {[title |-> <<"M", "y", " ", "D", "o", "c", "!">>, suggested_model_keywords |-> kw,
      main_topics |-> tp.main_topics, subject_area |-> sa,
      key_concepts |-> tp.key_concepts] :
        kw \in {<<"heart">>, <<"Cell">>}, tp \in TopicSets, sa \in SubjectAreas}

\* position of the entry with the given id in a manifest (0 when absent)
PosOf(ms, id) == IF \E i \in 1..Len(ms) : ms[i].id = id
                 THEN CHOOSE i \in 1..Len(ms) : ms[i].id = id ELSE 0


----------------------------------------------------------------------------
(* Python dict: a sequence of [k, v] entries in insertion order.           *)

EmptyDict == <<>>

DictKeys(d) == {d[i].k : i \in 1..Len(d)}

DictGet(d, key) == (CHOOSE e \in Range(d) : e.k = key).v

\* d[key] = val: overwrite in place, or append a new entry
DictSet(d, key, val) ==
    IF key \in DictKeys(d)
    THEN [i \in 1..Len(d) |-> IF d[i].k = key THEN [k |-> key, v |-> val] ELSE d[i]]
    ELSE Append(d, [k |-> key, v |-> val])

----------------------------------------------------------------------------
(* Narration generator: generate_narrations (narration.py).                *)

\* variant: one fallback text for every item
FallbackGeneric(name) ==
    <<"This model represents a key concept from your document. ",
      "Click to explore and learn more.">>

\* lines 75-78: the fallback narration, built from the item's name
Fallback(name) ==
    <<"This ">> \o name
    \o <<" represents a key concept from your document. ",
         "Click to explore and learn more about ">>
    \o LowerStr(name) \o <<".">>

\* what llm.generate does for one narration prompt
NarrationTexts == {<<"This", " ", "shows", " ", "it.">>, <<" ", "Hi.", "\n">>}

NarrationOutcomes == {[raises |-> TRUE, text |-> <<>>]}
                       \cup {[raises |-> FALSE, text |-> t] : t \in NarrationTexts}

\* variant: a failed call leaves the map without an entry for the item
narrate_item_skip_failed(d, m, llm) ==
    IF llm.raises THEN d ELSE DictSet(d, m.id, Strip(llm.text))

\* lines 68-78: one iteration of the loop over the selected models
narrate_item(d, m, llm) ==
    DictSet(d, m.id, IF llm.raises THEN Fallback(m.name) ELSE Strip(llm.text))

----------------------------------------------------------------------------
(* Audio synthesizer: synthesize_audio (narration.py).                     *)

None == "None"

PLACEHOLDER == "your_elevenlabs_api_key"

\* settings.elevenlabs_api_key: unset, empty, the .env placeholder, a real key
ApiKeys == {<<None>>, <<>>, <<PLACEHOLDER, "_here">>, <<"sk_", "1234">>}

\* line 100
tts_skipped(key) == key = <<None>> \/ key = <<>> \/ Contains(key, PLACEHOLDER)

\* line 143
AudioFilename(id) == <<id, ".mp3">>

\* config.py lines 28, 34: the defaults of gcs_bucket_name and local_models_path
GCS_BUCKET_NAME == "doc-to-3d-models"
LOCAL_MODELS_PATH == "local_models"

\* gcs.py lines 101-104, 114-115: where upload_audio puts a file: under
\* <local_models_path>/audio in local mode, else as the blob audio/<filename>
StoredPath(local, filename) ==
    IF local THEN <<LOCAL_MODELS_PATH, "/audio/">> \o filename
    ELSE <<"audio/">> \o filename

\* gcs.py lines 108, 120: the reference upload_audio returns for a stored
\* file: the path the static mount serves in local mode, else the blob's
\* public_url, which the storage library builds from bucket and blob name
AudioUrl(local, filename) ==
    IF local THEN <<"/static/audio/">> \o filename
    ELSE <<"https://storage.googleapis.com/", GCS_BUCKET_NAME, "/">>
         \o StoredPath(FALSE, filename)

\* per-item results of the synthesis request and of the upload: the request
\* fails or answers another status; on 200 the upload fails before anything
\* is written (upload_error) or succeeds. An upload can also fail after it
\* has written: in local mode Path.write_bytes (gcs.py line 105) opens the
\* file, which creates or truncates it, and can raise while writing
\* (partial_write); in the bucket (gcs.py lines 117-118) make_public can
\* raise after upload_from_string has written the blob (public_error)
SynthOutcomes(local) ==
    {"ok", "non200", "transport_error", "upload_error"}
    \cup (IF local THEN {"partial_write"} ELSE {"public_error"})

\* a file is at the path when upload_audio returns or raises
upload_stores(outcome) == outcome \in {"ok", "public_error", "partial_write"}

\* the bytes at the path are all the bytes of the audio
upload_complete(outcome) == outcome \in {"ok", "public_error"}

\* variant: the reference is recorded under a literal key, not under the id
synth_item_literal_key(d, id, outcome, local) ==
    IF outcome = "ok" THEN DictSet(d, "model_id", AudioUrl(local, AudioFilename(id)))
    ELSE d

\* lines 114-151: one iteration of the loop over narrations.items(); the
\* reference is recorded only when upload_audio returned
synth_item(d, id, outcome, local) ==
    IF outcome = "ok" THEN DictSet(d, id, AudioUrl(local, AudioFilename(id))) ELSE d

\* variant: the audio is written whatever the status of the response
upload_audio_unchecked(files, filename, outcome, local) ==
    IF upload_stores(outcome) \/ outcome = "non200"
    THEN files \cup {StoredPath(local, filename)} ELSE files

\* gcs.py lines 89-122: files written by upload_audio
upload_audio(files, filename, outcome, local) ==
    IF upload_stores(outcome) THEN files \cup {StoredPath(local, filename)} ELSE files


----------------------------------------------------------------------------
(* Request handlers: generate_3d_experience and generate_3d_experience_v2  *)
(* (routers/generate.py).                                                  *)

\* extraction.py lines 101-105
SUPPORTED_MIME_TYPES ==
    {"application/pdf",
     "application/vnd.openxmlformats-officedocument.presentationml.presentation",
     "text/plain"}

\* extraction.py lines 108-110
is_supported_mime_type(t) == t \in SUPPORTED_MIME_TYPES

\* config.py line 37
max_file_size_mb == 50

\* config.py lines 49-52
max_file_size_bytes == max_file_size_mb * 1024 * 1024

\* the null character in a file name
NUL == "\\x00"

\* the length of the suffix of the long file name
LongSuffixLen == 300

\* the text of a file name, one character a token
NotesTxt == <<"n", "o", "t", "e", "s", ".", "t", "x", "t">>

\* file.filename of an upload: a plain name, none, one ending in a
\* separator, one whose part after the dot is longer than a directory entry
\* can be, one with a null character
Filenames ==
    {NotesTxt, <<>>, <<"a", ".", "b", "/">>,
     <<"n", ".">> \o [i \in 1..LongSuffixLen |-> "a"],
     <<"n", ".", "a", NUL, "b">>}

Uploads ==
    {[content_type |-> ct, size |-> n, filename |-> NotesTxt] :
        ct \in {None, "image/png", "text/plain", "application/pdf"},
        n \in {0, max_file_size_bytes, max_file_size_bytes + 1}}
    \cup
    {[content_type |-> "text/plain", size |-> max_file_size_bytes, filename |-> f] :
        f \in Filenames}

\* the texts between the separators of a path, in order
RECURSIVE SplitPath(_)
SplitPath(path) ==
    IF ~Contains(path, "/") THEN <<path>>
    ELSE <<SubSeq(path, 1, Find(path, "/") - 1)>>
         \o SplitPath(SubSeq(path, Find(path, "/") + 1, Len(path)))

\* the components pathlib keeps of a path: empty ones (doubled and trailing
\* separators) and single dots are dropped
PathParts(path) == SelectSeq(SplitPath(path), LAMBDA part : part \notin {<<>>, <<".">>})

\* PurePath.name: the last component of a path, empty when it has none
PathName(path) ==
    IF PathParts(path) = <<>> THEN <<>> ELSE Last(PathParts(path))

\* PurePath.suffix: the name from its last dot on, when that dot is neither
\* the first nor the last character of the name
PathSuffix(path) ==
    LET name == PathName(path)
        i == RFind(name, ".")
    IN  IF Contains(name, ".") /\ 1 < i /\ i < Len(name)
        THEN SubSeq(name, i, Len(name)) ELSE <<>>

\* lines 116 / 265: Path(file.filename).suffix if file.filename else ".tmp"
TempSuffix(filename) ==
    IF filename = <<>> THEN <<".", "t", "m", "p">> ELSE PathSuffix(filename)

\* tempfile names a file tmp, eight random characters, the suffix
TempNameLen(suffix) == 3 + 8 + Len(suffix)

\* a directory entry holds a name of at most 255 characters
NameTooLong(suffix) == TempNameLen(suffix) > 255

\* lines 117, 121-122 / 266, 270-271: what creating and writing the temp
\* file can do. NamedTemporaryFile raises ValueError for a suffix with a null
\* character and OSError for a name too long or a directory it cannot create
\* the file in (create_error), both before the try block and with no file
\* made; write raises OSError inside the try block (write_error)
TempFileOutcomes(suffix) ==
    IF NUL \in Range(suffix) THEN {"ValueError"}
    ELSE IF NameTooLong(suffix) THEN {"create_error"}
    ELSE {"written", "create_error", "write_error"}

NoResponse == [kind |-> "none", status |-> 0, error_code |-> "", exc |-> "", body |-> <<>>]

\* raise HTTPException(status_code=..., detail={"detail": ..., "error_code": ...})
HttpError(status, code) ==
    [kind |-> "http_error", status |-> status, error_code |-> code, exc |-> "",
     body |-> <<>>]

\* an exception no except clause of the handler maps: it leaves the handler as is
Unhandled(e) ==
    [kind |-> "unhandled", status |-> 500, error_code |-> "", exc |-> e, body |-> <<>>]

\* lines 204-207 / 323-326
HTMLResponse(html) ==
    [kind |-> "success", status |-> 200, error_code |-> "", exc |-> "", body |-> html]

\* the value synthesize_audio returns: a plain dict (narration.py lines 105, 154)
DictValue(d) == [type |-> "dict", items |-> d, exc |-> ""]

\* getattr on a returned value: a dict has neither .urls nor .base64
HasAttr(x, attr) == x.type # "dict"

Unloaded == [loaded |-> FALSE, models |-> <<>>]


\* variant: a failed load leaves an empty catalog in the cache
get_manifest_cache_failure(cache, stored_manifest, load) ==
    IF cache.loaded THEN [raised |-> FALSE, cache |-> cache, load_issued |-> FALSE]
    ELSE IF load = "fail"
         THEN [raised |-> TRUE, cache |-> [loaded |-> TRUE, models |-> <<>>],
               load_issued |-> TRUE]
    ELSE [raised |-> FALSE, cache |-> [loaded |-> TRUE, models |-> stored_manifest],
          load_issued |-> TRUE]

\* get_manifest without the emptiness check: every call loads
get_manifest_reload(cache, stored_manifest, load) ==
    IF load = "fail" THEN [raised |-> TRUE, cache |-> cache, load_issued |-> TRUE]
    ELSE [raised |-> FALSE, cache |-> [loaded |-> TRUE, models |-> stored_manifest],
          load_issued |-> TRUE]

\* lines 40-44: Services.get_manifest; load is what the storage collaborator
\* does when it is asked, load_issued tells whether it was asked
get_manifest(cache, stored_manifest, load) ==
    IF cache.loaded THEN [raised |-> FALSE, cache |-> cache, load_issued |-> FALSE]
    ELSE IF load = "fail" THEN [raised |-> TRUE, cache |-> cache, load_issued |-> TRUE]
    ELSE [raised |-> FALSE, cache |-> [loaded |-> TRUE, models |-> stored_manifest],
          load_issued |-> TRUE]

\* the record kept of a finished get_manifest call: got is get_manifest's result
ManifestCall(got) ==
    [raised |-> got.raised,
     models |-> IF got.raised THEN <<>> ELSE got.cache.models,
     load_issued |-> got.load_issued]

\* the inputs of the request handlers
PipeManifests ==
    {m \in Manifests :
        /\ Len(m) <= 2
        /\ \A i \in 1..Len(m) :
              m[i].keywords = <<"heart", "cardiac">> /\ m[i].name = <<"Model">>}

PipeAnalyses ==
    {a \in Analyses : a.key_concepts = <<>> /\ a.main_topics = <<>>}

\* A text that goes through json.dumps is a sequence of pieces: a run of
\* characters json.dumps writes as they are (printable ASCII but the double
\* quote and the backslash), or one character it escapes, given by its code
\* point (a control character, the double quote, the backslash, a character
\* outside ASCII)
Run(s) == [text |-> s, cp |-> -1]
Chr(n) == [text |-> "", cp |-> n]

\* the runs of a text with no character to escape
Runs(text) == [i \in 1..Len(text) |-> Run(text[i])]

ConceptIds == <<"c1", "c2">>

\* ConceptGraph: the fields the handler and the schema checks read; the
\* central concept id and the relationship endpoints need not name a concept
PipeGraphs ==
    {[title |-> <<"M", "y", " ", "M", "a", "p">>,
      summary |-> <<"A", " ", "map.">>,
      layout_type |-> "concept-map",
      central_concept_id |-> central,
      relationships |-> rels,
      categories |-> <<[id |-> "cat1", name |-> <<Run("Main")>>, color |-> "#4ecdc4"],
                      [id |-> "cat2", name |-> <<Run("Other")>>, color |-> "#ff6b6b"],
                      [id |-> "cat1", name |-> <<Run("Main"), Chr(8)>>,
                       color |-> "#ffe66d"]>>,
      background_color |-> "#0a0a1a",
      ambient_color |-> "#ffffff",
      suggested_exploration_order |-> <<>>,
      concepts |-> [i \in 1..n |-> [id |-> ConceptIds[i],
                                    name |-> <<Run("The "), Chr(34), Run(ConceptIds[i]),
                                               Chr(34)>>,
                                    description |->
                                        <<Run("caf"), Chr(233), Chr(10), Run("a"),
                                          Chr(92), Run("b"), Chr(1), Chr(128512)>>,
                                    category |-> "cat1",
                                    importance |-> 3]]] :
        n \in 0..2, central \in {"c1", "zz"},
        rels \in {<<>>, <<[from_id |-> "c1", to_id |-> "zz"]>>}}

\* models/analysis.py lines 29-40
SUBJECT_AREAS ==
    {"biology", "physics", "chemistry", "history", "geography", "astronomy",
     "anatomy", "engineering", "mathematics", "general"}

\* models/analysis.py line 42
DIFFICULTY_LEVELS == {"beginner", "intermediate", "advanced"}

\* models/analysis.py lines 137-143
LAYOUT_TYPES == {"concept-map", "hierarchy", "timeline", "clusters", "network"}

\* the JSON objects the collaborator can answer for the analysis prompt: the
\* fields of a ContentAnalysis, with absent naming the keys the object lacks
AnalysisObjects ==
    {[title |-> a.title, suggested_model_keywords |-> a.suggested_model_keywords,
      main_topics |-> a.main_topics, subject_area |-> a.subject_area,
      key_concepts |-> a.key_concepts, difficulty_level |-> "beginner",
      absent |-> {}] : a \in PipeAnalyses}
    \cup
    {[title |-> <<"M", "y", " ", "D", "o", "c", "!">>, suggested_model_keywords |-> <<"heart">>,
      main_topics |-> <<>>, subject_area |-> v.subject_area,
      key_concepts |-> v.key_concepts, difficulty_level |-> v.difficulty_level,
      absent |-> v.absent] :
        v \in {[subject_area |-> "cooking", key_concepts |-> <<>>,
                difficulty_level |-> "beginner", absent |-> {}],
               [subject_area |-> "anatomy", key_concepts |-> <<>>,
                difficulty_level |-> "expert", absent |-> {}],
               [subject_area |-> "anatomy",
                key_concepts |-> <<[name |-> "Heart", importance |-> 9]>>,
                difficulty_level |-> "beginner", absent |-> {}],
               [subject_area |-> "anatomy", key_concepts |-> <<>>,
                difficulty_level |-> "beginner", absent |-> {"title"}]}}

\* the JSON objects the collaborator can answer for the concept graph prompt
GraphObjects ==
    {[graph |-> g, absent |-> {}] : g \in PipeGraphs}
    \cup
    {[graph |-> [title |-> <<"M", "y", " ", "M", "a", "p">>,
                 summary |-> <<"A", " ", "map.">>, layout_type |-> v.layout_type,
                 central_concept_id |-> "c1", relationships |-> <<>>,
                 categories |-> <<>>, background_color |-> "#0a0a1a",
                 ambient_color |-> "#ffffff", suggested_exploration_order |-> <<>>,
                 concepts |-> <<[id |-> "c1", name |-> <<Run("Concept c1")>>,
                                 description |-> <<Run("About c1")>>,
                                 category |-> "cat1",
                                 importance |-> v.importance]>>],
      absent |-> v.absent] :
        v \in {[layout_type |-> "spiral", importance |-> 3, absent |-> {}],
               [layout_type |-> "network", importance |-> 9, absent |-> {}],
               [layout_type |-> "network", importance |-> 3,
                absent |-> {"central_concept_id"}]}}

\* what llm.generate_json does: it raises, or returns text that json.loads
\* rejects (json = FALSE), or returns the text of the JSON object data
AnalyzerOutcomes(ep) ==
    {[raises |-> TRUE, json |-> FALSE, data |-> <<>>],
     [raises |-> FALSE, json |-> FALSE, data |-> <<>>]}
    \cup {[raises |-> FALSE, json |-> TRUE, data |-> <<d>>] :
             d \in IF ep = "v2" THEN GraphObjects ELSE AnalysisObjects}

\* validation that lets every JSON object through
ContentAnalysis_accept_all(d) == TRUE

\* ContentAnalysis.model_validate (models/analysis.py lines 9-50): required
\* keys, the two closed lists and the importance range
ContentAnalysis_model_validate(d) ==
    /\ d.absent \cap {"title", "main_topics", "key_concepts", "subject_area",
                      "difficulty_level", "suggested_model_keywords"} = {}
    /\ d.subject_area \in SUBJECT_AREAS
    /\ d.difficulty_level \in DIFFICULTY_LEVELS
    /\ \A i \in 1..Len(d.key_concepts) : d.key_concepts[i].importance \in 1..5

\* ConceptGraph.model_validate (models/analysis.py lines 65-169): required
\* keys, the closed list of layouts and the importance range; ids are free
ConceptGraph_model_validate(d) ==
    /\ d.absent \cap {"title", "summary", "subject_area", "central_concept_id",
                      "concepts", "relationships", "categories"} = {}
    /\ d.graph.layout_type \in LAYOUT_TYPES
    /\ \A i \in 1..Len(d.graph.concepts) : d.graph.concepts[i].importance \in 1..5

\* the ContentAnalysis built from a validated object: the fields read later
ContentAnalysisOf(d) ==
    [title |-> d.title, suggested_model_keywords |-> d.suggested_model_keywords,
     main_topics |-> d.main_topics, subject_area |-> d.subject_area,
     key_concepts |-> d.key_concepts]

\* analyze_content / extract_concept_graph has not been called
NoAnalysisResult ==
    [kind |-> "none", exc |-> "", cause |-> "", calls |-> 0,
     llm |-> [raises |-> FALSE, json |-> FALSE, data |-> <<>>]]

\* raise AnalysisError(...) from e, after the one generate_json call
AnalysisError(cause, llm) ==
    [kind |-> "raise", exc |-> "AnalysisError", cause |-> cause, calls |-> 1,
     llm |-> llm]

\* return of the validated object, after the one generate_json call
AnalysisReturn(llm) ==
    [kind |-> "return", exc |-> "", cause |-> "", calls |-> 1, llm |-> llm]

\* analysis.py lines 72-92: generate_json, json.loads, model_validate
analyze_content(llm) ==
    IF llm.raises THEN AnalysisError("Exception", llm)
    ELSE IF ~llm.json THEN AnalysisError("JSONDecodeError", llm)
    ELSE IF ~ContentAnalysis_model_validate(llm.data[1])
    THEN AnalysisError("ValidationError", llm)
    ELSE AnalysisReturn(llm)

\* analysis.py lines 276-299
extract_concept_graph(llm) ==
    IF llm.raises THEN AnalysisError("Exception", llm)
    ELSE IF ~llm.json THEN AnalysisError("JSONDecodeError", llm)
    ELSE IF ~ConceptGraph_model_validate(llm.data[1])
    THEN AnalysisError("ValidationError", llm)
    ELSE AnalysisReturn(llm)

\* line 301: {c.id: c.description for c in concept_graph.concepts}
RECURSIVE ConceptNarrations(_)
ConceptNarrations(cs) ==
    IF cs = <<>> THEN EmptyDict
    ELSE DictSet(ConceptNarrations(Front(cs)), Last(cs).id, Last(cs).description)

HexDigits ==
    <<"0", "1", "2", "3", "4", "5", "6", "7", "8", "9", "a", "b", "c", "d", "e", "f">>

\* '\\u{0:04x}'.format(n)
JsonHex(n) ==
    <<"\\u", HexDigits[((n \div 4096) % 16) + 1], HexDigits[((n \div 256) % 16) + 1],
      HexDigits[((n \div 16) % 16) + 1], HexDigits[(n % 16) + 1]>>

\* json.dumps, ensure_ascii at its default, of one piece of a text: the
\* short escapes of the quote, the backslash and the five named control
\* characters, \uXXXX for every other character it escapes, a surrogate pair
\* for a code point above U+FFFF
JsonEscape(tok) ==
    IF tok.cp = -1 THEN <<tok.text>>
    ELSE CASE tok.cp = 34 -> <<"\\\"">>
           [] tok.cp = 92 -> <<"\\\\">>
           [] tok.cp = 10 -> <<"\\n">>
           [] tok.cp = 13 -> <<"\\r">>
           [] tok.cp = 9 -> <<"\\t">>
           [] tok.cp = 12 -> <<"\\f">>
           [] tok.cp = 8 -> <<"\\b">>
           [] tok.cp > 65535 ->
                 JsonHex(55296 + ((tok.cp - 65536) \div 1024))
                 \o JsonHex(56320 + ((tok.cp - 65536) % 1024))
           [] OTHER -> JsonHex(tok.cp)

RECURSIVE JsonChars(_)
JsonChars(text) ==
    IF text = <<>> THEN <<>> ELSE JsonEscape(Head(text)) \o JsonChars(Tail(text))

\* json.dumps of a string: the escaped text between double quotes
JsonString(text) == <<"\"">> \o JsonChars(text) \o <<"\"">>

\* json.dumps of a list whose items are already rendered
RECURSIVE JsonItems(_)
JsonItems(items) ==
    IF items = <<>> THEN <<>>
    ELSE IF Len(items) = 1 THEN items[1]
    ELSE items[1] \o <<", ">> \o JsonItems(Tail(items))

JsonList(items) == <<"[">> \o JsonItems(items) \o <<"]">>

\* scene_generator.py lines 39-44, 393: concept.model_dump() with the key
\* audio_url added, audio_data.get(concept.id, ""); parent_id, shape and
\* color are at their defaults in the modelled graphs
ConceptJson(c, audio_data) ==
    <<"{", "\"id\": ">> \o JsonString(<<Run(c.id)>>)
    \o <<", ", "\"name\": ">> \o JsonString(c.name)
    \o <<", ", "\"description\": ">> \o JsonString(c.description)
    \o <<", ", "\"category\": ">> \o JsonString(<<Run(c.category)>>)
    \o <<", ", "\"importance\": ", ToString(c.importance)>>
    \o <<", ", "\"parent_id\": ", "null", ", ", "\"shape\": ">>
    \o JsonString(<<Run("sphere")>>) \o <<", ", "\"color\": ", "null">>
    \o <<", ", "\"audio_url\": ">>
    \o JsonString(IF c.id \in DictKeys(audio_data)
                  THEN Runs(DictGet(audio_data, c.id)) ELSE <<>>)
    \o <<"}">>

\* line 394: r.model_dump() of a relationship, type, label and strength at
\* their defaults
RelationshipJson(r) ==
    <<"{", "\"from_id\": ">> \o JsonString(<<Run(r.from_id)>>)
    \o <<", ", "\"to_id\": ">> \o JsonString(<<Run(r.to_id)>>)
    \o <<", ", "\"relationship_type\": ">> \o JsonString(<<Run("relates_to")>>)
    \o <<", ", "\"label\": ", "null", ", ", "\"strength\": ", "3", "}">>

\* line 395: the dict {cat.id: {"name": cat.name, "color": cat.color}}; a
\* category whose id came before keeps the place of the first and takes the
\* values of the last
RECURSIVE CategoryDict(_)
CategoryDict(cats) ==
    IF cats = <<>> THEN EmptyDict
    ELSE DictSet(CategoryDict(Front(cats)), Last(cats).id,
                 [name |-> Last(cats).name, color |-> Last(cats).color])

\* line 395: one item of the dict as json.dumps writes it
CategoryJson(e) ==
    JsonString(<<Run(e.k)>>) \o <<": ", "{", "\"name\": ">> \o JsonString(e.v.name)
    \o <<", ", "\"color\": ">> \o JsonString(<<Run(e.v.color)>>) \o <<"}">>

\* scene_generator.py lines 17-914: the scene template with the values of the
\* graph put in, in the order of the template. Of the fixed text between the
\* values the tags that open and close the document, its head, style, body
\* and three script elements are kept, and the words before each value; the
\* style rules, the panel markup and the script's code are left out. The
\* title and the summary are put in as they are, the values of graphData
\* through json.dumps. No collaborator call is made
generate_primitive_scene_html(graph, audio_data) ==
    <<DOCTYPE, "\n", "<html lang=\"en\">", "\n", "<head>", "\n", "    ",
      "<meta charset=\"UTF-8\">", "\n", "    ", "<title>">>
    \o graph.title
    \o <<"</title>", "\n", "    ", "<style>", "background: ",
         graph.background_color, ";", "background: ", graph.background_color,
         ";", "</style>", "\n", "</head>", "\n", "<body>", "\n",
         "<h1 id=\"title\">">>
    \o graph.title
    \o <<"</h1>", "\n", "        ", "<p id=\"summary\">">>
    \o graph.summary
    \o <<"</p>", "\n",
         "<script src=\"https://cdnjs.cloudflare.com/ajax/libs/gsap/3.12.2/gsap.min.js\">",
         "</script>", "\n", "    ", "<script type=\"importmap\">", "\n",
         "    ", "</script>", "\n", "<script type=\"module\">", "\n",
         "const graphData = {", "\n", "            ", "layoutType: ">>
    \o JsonString(<<Run(graph.layout_type)>>)
    \o <<",", "\n", "            ", "centralConceptId: ">>
    \o JsonString(<<Run(graph.central_concept_id)>>)
    \o <<",", "\n", "            ", "concepts: ">>
    \o JsonList([i \in 1..Len(graph.concepts) |->
                    ConceptJson(graph.concepts[i], audio_data)])
    \o <<",", "\n", "            ", "relationships: ">>
    \o JsonList([i \in 1..Len(graph.relationships) |->
                    RelationshipJson(graph.relationships[i])])
    \o <<",", "\n", "            ", "categories: ", "{">>
    \o JsonItems([i \in 1..Len(CategoryDict(graph.categories)) |->
                     CategoryJson(CategoryDict(graph.categories)[i])])
    \o <<"}", ",", "\n", "            ", "explorationOrder: ">>
    \o JsonList([i \in 1..Len(graph.suggested_exploration_order) |->
                    JsonString(<<Run(graph.suggested_exploration_order[i])>>)])
    \o <<"\n", "        ", "};", "\n",
         "scene.background = new THREE.Color('", graph.background_color, "');",
         "\n", "new THREE.AmbientLight('", graph.ambient_color, "', 0.4);",
         "\n", "animate();", "\n", "    ", "</script>", "\n", "</body>", "\n",
         HTML_CLOSE>>

\* s[:n] == prefix: does the token sequence s begin with prefix
HasPrefix(s, prefix) ==
    Len(prefix) <= Len(s) /\ SubSeq(s, 1, Len(prefix)) = prefix

\* str.replace(old, new) for a non-empty old: left to right, non-overlapping
RECURSIVE Replace(_, _, _)
Replace(h, old, new) ==
    IF h = <<>> THEN <<>>
    ELSE IF HasPrefix(h, old)
         THEN new \o Replace(SubSeq(h, Len(old) + 1, Len(h)), old, new)
    ELSE <<Head(h)>> \o Replace(Tail(h), old, new)

\* what llm.generate does for the assembly prompt of a request
PipeLLMOutcomes ==
    {[raises |-> TRUE, text |-> <<>>],
     [raises |-> FALSE, text |-> <<DOCTYPE, "<html>", HTML_CLOSE>>],
     [raises |-> FALSE, text |-> <<"x">>]}

\* lines 211-214 / 330-333: tmp_path.unlink() removes the file, or raises and
\* the except clause swallows the exception, the file staying where it is
UnlinkResults == {"removed", "exists"}

\* the finally clause (lines 209-214 / 328-333): the handler ends by a return
\* or by any exception, and on the way out the unlink of the temp file it
\* created is tried
Exit(resp) ==
    /\ response' = resp
    /\ tmp_file' \in (IF tmp_file = "exists" THEN UnlinkResults ELSE {tmp_file})
    /\ pc' = "done"

\* the synthesis step placed before the narration step
NextStageSynthFirst(ep, stage) ==
    CASE stage = "validate" -> "extract"
      [] stage = "extract" -> "analyze"
      [] stage = "analyze" -> IF ep = "v2" THEN "synthesize" ELSE "match"
      [] stage = "match" -> "synthesize"
      [] stage = "synthesize" -> IF ep = "v2" THEN "assemble" ELSE "narrate"
      [] stage = "narrate" -> "assemble"

\* the step that follows a completed step in the handler's body:
\* generate_3d_experience steps 1-6 (lines 94-188), generate_3d_experience_v2
\* steps 1-4 (lines 243-312), which has no matching and no narration step
NextStage(ep, stage) ==
    CASE stage = "validate" -> "extract"
      [] stage = "extract" -> "analyze"
      [] stage = "analyze" -> IF ep = "v2" THEN "synthesize" ELSE "match"
      [] stage = "match" -> "narrate"
      [] stage = "narrate" -> "synthesize"
      [] stage = "synthesize" -> "assemble"

\* the next stage of the handler is started
Goto(stage) ==
    /\ pc' = stage
    /\ started' = Append(started, stage)

\* a unit call returns to its caller
Return == pc' = "returned" /\ UNCHANGED started

\* lines 94-122 / 243-271: media type and size checks, temp file creation
\* and write. A failure to create the file leaves the handler before the try
\* block; a failure to write it passes through the finally clause, where the
\* unlink of the file is tried
Validate ==
    /\ pc = "validate"
    /\ IF upload.content_type = None \/ ~is_supported_mime_type(upload.content_type)
       THEN /\ Exit(HttpError(400, "UNSUPPORTED_FILE_TYPE"))
            /\ UNCHANGED started
       ELSE IF upload.size > max_file_size_bytes
       THEN /\ Exit(HttpError(413, "FILE_TOO_LARGE"))
            /\ UNCHANGED started
       ELSE \E outcome \in TempFileOutcomes(TempSuffix(upload.filename)) :
              CASE outcome = "ValueError" ->
                      Exit(Unhandled("ValueError")) /\ UNCHANGED started
                [] outcome = "create_error" ->
                      Exit(Unhandled("OSError")) /\ UNCHANGED started
                [] outcome = "write_error" ->
                      /\ response' = Unhandled("OSError")
                      /\ tmp_file' \in UnlinkResults
                      /\ pc' = "done"
                      /\ UNCHANGED started
                [] outcome = "written" ->
                      /\ tmp_file' = "exists"
                      /\ Goto(NextStage(endpoint, "validate"))
                      /\ UNCHANGED response
    /\ UNCHANGED <<endpoint, llm_raw, html_result, analysis, manifest, max_models,
                   models, narrations, narr_i, api_key, audio_urls, synth_i,
                   audio_result, stored, manifest_cache, upload, local_mode, audio_files, loads, running, reqs, caches, _services, in_flight, narration_calls, attachment, attempts, llm_calls,
                   analysis_result, manifest_calls>>

\* extraction.py lines 34-52: what extract_content can do for a media type.
\* A media type outside the three cases raises ValueError (line 44); any
\* ValueError the readers raise, UnicodeDecodeError being one, is re-raised
\* as it is (lines 48-49); every other exception becomes ExtractionError
ExtractOutcomes(ct) ==
    IF ~is_supported_mime_type(ct) THEN {"ValueError"}
    ELSE {"text", "blank", "ExtractionError", "UnicodeDecodeError"}
         \cup (IF ct = "text/plain" THEN {} ELSE {"ValueError"})

\* lines 124-140 / 273-289
Extract ==
    /\ pc = "extract"
    /\ \E outcome \in ExtractOutcomes(upload.content_type) :
          CASE outcome = "ExtractionError" ->
                  Exit(HttpError(422, "EXTRACTION_FAILED")) /\ UNCHANGED started
            [] outcome \in {"ValueError", "UnicodeDecodeError"} ->
                  Exit(Unhandled(outcome)) /\ UNCHANGED started
            [] outcome = "blank" ->
                  Exit(HttpError(422, "EMPTY_DOCUMENT")) /\ UNCHANGED started
            [] outcome = "text" ->
                  /\ Goto(NextStage(endpoint, "extract"))
                  /\ UNCHANGED <<response, tmp_file>>
    /\ UNCHANGED <<endpoint, llm_raw, html_result, analysis, manifest, max_models,
                   models, narrations, narr_i, api_key, audio_urls, synth_i,
                   audio_result, stored, manifest_cache, upload, local_mode, audio_files, loads, running, reqs, caches, _services, in_flight, narration_calls, attachment, attempts, llm_calls,
                   analysis_result, manifest_calls>>

\* lines 142-149 / 291-301: the analysis call, its error mapping and, in
\* /generate-v2, the narration map built from the graph
Analyze ==
    /\ pc = "analyze"
    /\ \E llm \in AnalyzerOutcomes(endpoint) :
          LET r == IF endpoint = "v2" THEN extract_concept_graph(llm)
                   ELSE analyze_content(llm)
          IN  /\ analysis_result' = r
              /\ llm_calls' = llm_calls + r.calls
              /\ IF r.kind = "raise"
                 THEN /\ Exit(HttpError(500, IF endpoint = "v1" THEN "ANALYSIS_FAILED"
                                             ELSE "CONCEPT_EXTRACTION_FAILED"))
                      /\ UNCHANGED <<started, analysis, narrations>>
                 ELSE IF endpoint = "v1"
                 THEN /\ analysis' = ContentAnalysisOf(llm.data[1])
                      /\ Goto(NextStage(endpoint, "analyze"))
                      /\ UNCHANGED <<response, tmp_file, narrations>>
                 ELSE /\ analysis' = llm.data[1].graph
                      /\ narrations' = ConceptNarrations(analysis'.concepts)
                      /\ Goto(NextStage(endpoint, "analyze"))
                      /\ UNCHANGED <<response, tmp_file>>
    /\ UNCHANGED <<endpoint, llm_raw, html_result, manifest, max_models, models,
                   narr_i, api_key, audio_urls, synth_i, audio_result, stored,
                   manifest_cache, upload, local_mode, audio_files, loads, running, reqs, caches, _services, in_flight, narration_calls, attachment, attempts, manifest_calls>>

\* lines 151-162
Match ==
    /\ pc = "match"
    /\ \E load \in {"ok", "fail"} :
          LET got == get_manifest(manifest_cache, manifest, load)
              ms == match_models(analysis, got.cache.models, DEFAULT_MAX_MODELS)
          IN  /\ manifest_cache' = got.cache
              /\ manifest_calls' = Append(manifest_calls, ManifestCall(got))
              /\ IF got.raised
                 THEN /\ Exit(Unhandled("ManifestLoadError"))
                      /\ UNCHANGED <<started, models>>
                 ELSE /\ models' = ms
                      /\ IF ms = <<>>
                         THEN /\ Exit(HttpError(422, "NO_MATCHING_MODELS"))
                              /\ UNCHANGED started
                         ELSE /\ Goto(NextStage(endpoint, "match"))
                              /\ UNCHANGED <<response, tmp_file>>
    /\ UNCHANGED <<endpoint, llm_raw, html_result, analysis, manifest, max_models,
                   narrations, narr_i, api_key, audio_urls, synth_i, audio_result,
                   stored, upload, local_mode, audio_files, loads, running, reqs, caches, _services, in_flight, narration_calls, attachment, attempts, llm_calls,
                   analysis_result>>

\* narration.py lines 61-78: one collaborator call for the next selected model
NarrateItem ==
    /\ pc = "narrate"
    /\ narr_i <= Len(models)
    /\ \E llm \in NarrationOutcomes :
          /\ narrations' = narrate_item(narrations, models[narr_i], llm)
          /\ narration_calls' = Append(narration_calls,
                                       [id |-> models[narr_i].id, llm |-> llm])
    /\ narr_i' = narr_i + 1
    /\ llm_calls' = llm_calls + 1
    /\ UNCHANGED <<pc, endpoint, llm_raw, html_result, analysis, manifest,
                   max_models, models, api_key, audio_urls, synth_i, audio_result,
                   stored, manifest_cache, upload, local_mode, audio_files, loads, running, reqs, caches, _services, in_flight, attachment, attempts,
                   analysis_result, manifest_calls, tmp_file, started, response>>

\* narration.py lines 80-81
NarrateReturn ==
    /\ pc = "narrate"
    /\ narr_i > Len(models)
    /\ IF endpoint = "unit" THEN Return
       ELSE Goto(NextStage(endpoint, "narrate"))
    /\ UNCHANGED <<endpoint, llm_raw, html_result, analysis, manifest, max_models,
                   models, narrations, narr_i, api_key, audio_urls, synth_i,
                   audio_result, stored, manifest_cache, upload, local_mode, audio_files, loads, running, reqs, caches, _services, in_flight, narration_calls, attachment, attempts, llm_calls,
                   analysis_result, manifest_calls, tmp_file,
                   response>>

\* narration.py lines 99-110: skip without a usable credential, else enter the loop
SynthesizeStart ==
    /\ pc = "synthesize"
    /\ IF tts_skipped(api_key)
       THEN /\ audio_result' = DictValue(EmptyDict)
            /\ IF endpoint = "unit" THEN Return
               ELSE Goto(NextStage(endpoint, "synthesize"))
            /\ UNCHANGED <<audio_urls, synth_i>>
       ELSE /\ audio_urls' = EmptyDict
            /\ synth_i' = 1
            /\ pc' = "synth_loop"
            /\ UNCHANGED <<audio_result, started>>
    /\ UNCHANGED <<endpoint, llm_raw, html_result, analysis, manifest, max_models,
                   models, narrations, narr_i, api_key, stored, manifest_cache,
                   upload, local_mode, audio_files, loads, running, reqs, caches, _services, in_flight, narration_calls, attachment, attempts, llm_calls,
                   analysis_result, manifest_calls, tmp_file, response>>

\* the value of a call that ended by an exception
Raised(e) == [type |-> "exception", items |-> EmptyDict, exc |-> e]

\* the upload made outside the try block
synth_propagates_upload(outcome) == outcome = "upload_error"

\* narration.py lines 114, 149-151: the request, the status check and the
\* upload of one item are all inside try / except Exception, so nothing that
\* happens for an item leaves the loop
synth_propagates(outcome) == FALSE

\* narration.py lines 113-129: the request of the next item is sent and awaited
SynthRequest ==
    /\ pc = "synth_loop"
    /\ synth_i <= Len(narrations)
    /\ in_flight' = in_flight \cup {narrations[synth_i].k}
    /\ pc' = "synth_wait"
    /\ UNCHANGED <<endpoint, llm_raw, html_result, analysis, manifest,
                   max_models, models, narrations, narr_i, api_key, audio_urls,
                   synth_i, audio_result, stored, manifest_cache, upload, local_mode, audio_files, loads, running, reqs, caches, _services,
                   narration_calls, attachment, attempts, llm_calls,
                   analysis_result, manifest_calls, tmp_file, started, response>>

\* narration.py lines 115-151: the awaited request ends and, on 200, the audio
\* is uploaded before the loop goes on
SynthItem ==
    /\ pc = "synth_wait"
    /\ \E outcome \in SynthOutcomes(local_mode) :
          /\ attempts' = Append(attempts, [id |-> narrations[synth_i].k,
                                           outcome |-> outcome])
          /\ in_flight' = in_flight \ {narrations[synth_i].k}
          /\ stored' = upload_audio(stored, AudioFilename(narrations[synth_i].k),
                                    outcome, local_mode)
          /\ IF synth_propagates(outcome)
             THEN /\ audio_result' = Raised("Exception")
                  /\ IF endpoint = "unit"
                     THEN Return /\ UNCHANGED <<tmp_file, response>>
                     ELSE Exit(Unhandled("Exception")) /\ UNCHANGED started
                  /\ UNCHANGED <<audio_urls, synth_i>>
             ELSE /\ audio_urls' = synth_item(audio_urls, narrations[synth_i].k,
                                              outcome, local_mode)
                  /\ synth_i' = synth_i + 1
                  /\ pc' = "synth_loop"
                  /\ UNCHANGED <<audio_result, tmp_file, started, response>>
    /\ UNCHANGED <<endpoint, llm_raw, html_result, analysis, manifest,
                   max_models, models, narrations, narr_i, api_key,
                   manifest_cache, upload, local_mode, audio_files, loads, running, reqs, caches, _services, narration_calls, attachment, llm_calls,
                   analysis_result, manifest_calls>>

\* narration.py lines 153-154
SynthReturn ==
    /\ pc = "synth_loop"
    /\ synth_i > Len(narrations)
    /\ audio_result' = DictValue(audio_urls)
    /\ IF endpoint = "unit" THEN Return
       ELSE Goto(NextStage(endpoint, "synthesize"))
    /\ UNCHANGED <<endpoint, llm_raw, html_result, analysis, manifest, max_models,
                   models, narrations, narr_i, api_key, audio_urls, synth_i,
                   stored, manifest_cache, upload, local_mode, audio_files, loads, running, reqs, caches, _services, in_flight, narration_calls, attachment, attempts, llm_calls,
                   analysis_result, manifest_calls, tmp_file, response>>

\* the characters of the modelled titles for which str.isalnum() holds
AlnumChars == {"M", "y", "D", "o", "c", "a", "p", "7", "é"}

\* lines 191-193 / 308-310: every character that is neither alphanumeric nor
\* one of space, hyphen, underscore becomes an underscore
safe_title(title) ==
    [i \in 1..Len(title) |->
        IF title[i] \in AlnumChars \/ title[i] \in {" ", "-", "_"}
        THEN title[i] ELSE "_"]

\* the spaces left in place
replace_spaces_forgotten(t) == t

\* str.replace(" ", "_") on a sequence of characters
replace_spaces(t) == [i \in 1..Len(t) |-> IF t[i] = " " THEN "_" ELSE t[i]]

\* lines 194-195 / 311-312: spaces to underscores, the first 50 characters,
\* then the fixed ending
attachment_filename(title) ==
    SlicePrefix(replace_spaces(safe_title(title)), 50) \o <<"_3D.html">>

\* str.replace(old, new, 1): the first occurrence only
ReplaceFirst(h, old, new) ==
    IF \E i \in 1..Len(h) : HasPrefix(SubSeq(h, i, Len(h)), old)
    THEN LET i == CHOOSE j \in 1..Len(h) :
                     /\ HasPrefix(SubSeq(h, j, Len(h)), old)
                     /\ \A k \in 1..(j - 1) : ~HasPrefix(SubSeq(h, k, Len(h)), old)
         IN  SubSeq(h, 1, i - 1) \o new \o SubSeq(h, i + Len(old), Len(h))
    ELSE h

\* the object the handlers read the audio from: audio_result.urls and
\* audio_result.base64 (lines 176, 181-183, 305)
AudioResult(urls, b64) == [type |-> "AudioResult", urls |-> urls, base64 |-> b64]

\* variant: only the first occurrence of a reference is replaced
substitute_item_once(html, e, b64) ==
    IF e.k \in DictKeys(b64) THEN ReplaceFirst(html, e.v, DictGet(b64, e.k)) ELSE html

\* lines 182-183: if model_id in audio_result.base64:
\*     html = html.replace(url, audio_result.base64[model_id])
substitute_item(html, e, b64) ==
    IF e.k \in DictKeys(b64) THEN Replace(html, e.v, DictGet(b64, e.k)) ELSE html

\* lines 181-183: the loop over audio_result.urls.items()
RECURSIVE SubstituteAudio(_, _, _)
SubstituteAudio(html, urls, b64) ==
    IF urls = <<>> THEN html
    ELSE SubstituteAudio(substitute_item(html, Head(urls), b64), Tail(urls), b64)

\* lines 170-207: generate_html, the substitution pass and the response
Assemble ==
    /\ pc = "assemble"
    /\ endpoint = "v1"
    /\ IF ~HasAttr(audio_result, "urls")
       THEN /\ Exit(Unhandled("AttributeError"))
            /\ UNCHANGED <<html_result, llm_calls, attachment>>
       ELSE \E llm \in PipeLLMOutcomes :
               /\ html_result' = generate_html(llm)
               /\ llm_calls' = llm_calls + 1
               /\ IF html_result'.kind = "raise"
                  THEN /\ Exit(HttpError(500, "HTML_GENERATION_FAILED"))
                       /\ UNCHANGED attachment
                  ELSE /\ Exit(HTMLResponse(SubstituteAudio(html_result'.html,
                                          audio_result.urls, audio_result.base64)))
                       /\ attachment' = attachment_filename(analysis.title)
    /\ UNCHANGED <<endpoint, llm_raw, analysis, manifest, max_models, models,
                   narrations, narr_i, api_key, audio_urls, synth_i, audio_result,
                   stored, manifest_cache, upload, local_mode, audio_files, loads, running, reqs, caches, _services, in_flight, narration_calls, attempts, analysis_result,
                   manifest_calls, started>>

\* lines 304-326: the scene template, the file name and the response
AssembleV2 ==
    /\ pc = "assemble"
    /\ endpoint = "v2"
    /\ IF ~HasAttr(audio_result, "base64")
       THEN /\ Exit(Unhandled("AttributeError"))
            /\ UNCHANGED attachment
       ELSE /\ Exit(HTMLResponse(generate_primitive_scene_html(analysis,
                                                           audio_result.base64)))
            /\ attachment' = attachment_filename(analysis.title)
    /\ UNCHANGED <<endpoint, llm_raw, html_result, analysis, manifest, max_models,
                   models, narrations, narr_i, api_key, audio_urls, synth_i,
                   audio_result, stored, manifest_cache, upload, local_mode, audio_files, loads, running, reqs, caches, _services, in_flight, narration_calls, attempts,
                   llm_calls, analysis_result, manifest_calls, started>>

\* the catalogs the storage can hold
StoredCatalogs == PipeManifests

\* JSON body of GET /models: the list of the manifest's models, here their ids
ModelsResponse(ms) ==
    [kind |-> "success", status |-> 200, error_code |-> "", exc |-> "",
     body |-> [i \in 1..Len(ms) |-> ms[i].id]]

\* HTTPException(status_code=503, detail="Failed to fetch model manifest"):
\* the detail is a plain string, the body carries no error_code
ServiceUnavailable ==
    [kind |-> "http_error", status |-> 503, error_code |-> "", exc |-> "",
     body |-> <<>>]

\* lines 64-74: list_models, one GET /models request from call to response
ListModels ==
    /\ pc = "list_models"
    /\ Len(manifest_calls) < MaxCalls
    /\ \E load \in {"ok", "fail"} :
          LET got == get_manifest(manifest_cache, manifest, load)
          IN  /\ manifest_cache' = got.cache
              /\ manifest_calls' = Append(manifest_calls, ManifestCall(got))
              /\ response' = IF got.raised THEN ServiceUnavailable
                             ELSE ModelsResponse(got.cache.models)
    /\ UNCHANGED <<pc, endpoint, llm_raw, html_result, analysis, manifest,
                   max_models, models, narrations, narr_i, api_key, audio_urls,
                   synth_i, audio_result, stored, upload, local_mode, audio_files, loads, running, reqs, caches, _services, in_flight, narration_calls, attachment, attempts,
                   llm_calls, analysis_result, tmp_file, started>>

\* the catalog in the storage is replaced between two requests
StorageChange ==
    /\ pc = "list_models"
    /\ Len(manifest_calls) < MaxCalls
    /\ manifest' \in StoredCatalogs \ {manifest}
    /\ UNCHANGED <<pc, endpoint, llm_raw, html_result, analysis, max_models,
                   models, narrations, narr_i, api_key, audio_urls, synth_i,
                   audio_result, stored, manifest_cache, upload, local_mode, audio_files, loads, running, reqs, caches, _services, in_flight, narration_calls, attachment,
                   attempts, llm_calls, analysis_result, manifest_calls, tmp_file,
                   started, response>>

\* the file name expression of lines 191-195 evaluated on a title
SafeFilenameCall ==
    /\ pc = "safe_title"
    /\ attachment' = attachment_filename(analysis.title)
    /\ Return
    /\ UNCHANGED <<endpoint, llm_raw, html_result, analysis, manifest, max_models,
                   models, narrations, narr_i, api_key, audio_urls, synth_i,
                   audio_result, stored, manifest_cache, upload, local_mode, audio_files, loads, running, reqs, caches, _services, in_flight, narration_calls, attempts,
                   llm_calls, analysis_result, manifest_calls, tmp_file, response>>

\* the substitution pass of lines 181-183 run on a document and the two
\* mappings of an audio result
SubstituteCall ==
    /\ pc = "substitute"
    /\ response' = HTMLResponse(SubstituteAudio(html_result.html, audio_result.urls,
                                                audio_result.base64))
    /\ Return
    /\ UNCHANGED <<endpoint, llm_raw, html_result, analysis, manifest, max_models,
                   models, narrations, narr_i, api_key, audio_urls, synth_i,
                   audio_result, stored, manifest_cache, upload, local_mode, audio_files, loads, running, reqs, caches, _services, in_flight, narration_calls, attempts,
                   llm_calls, analysis_result, manifest_calls, tmp_file, attachment>>

\* a direct call of generate_html with one collaborator outcome
GenerateHtmlCall ==
    /\ pc = "generate_html"
    /\ html_result' = generate_html(llm_raw)
    /\ llm_calls' = llm_calls + 1
    /\ Return
    /\ UNCHANGED <<endpoint, llm_raw, analysis, manifest, max_models, models,
                   narrations, narr_i, api_key, audio_urls, synth_i, audio_result,
                   stored, manifest_cache, upload, local_mode, audio_files, loads, running, reqs, caches, _services, in_flight, narration_calls, attachment, attempts,
                   analysis_result, manifest_calls, tmp_file, response>>

\* a direct call of match_models
MatchModelsCall ==
    /\ pc = "match_models"
    /\ models' = match_models(analysis, manifest, max_models)
    /\ Return
    /\ UNCHANGED <<endpoint, llm_raw, html_result, analysis, manifest, max_models,
                   narrations, narr_i, api_key, audio_urls, synth_i, audio_result,
                   stored, manifest_cache, upload, local_mode, audio_files, loads, running, reqs, caches, _services, in_flight, narration_calls, attachment, attempts, llm_calls,
                   analysis_result, manifest_calls, tmp_file, response>>


----------------------------------------------------------------------------
(* Specifications.                                                         *)

NoAnalysis ==
    [title |-> <<>>, suggested_model_keywords |-> <<>>, main_topics |-> <<>>,
     subject_area |-> "general", key_concepts |-> <<>>]

IdleHtml == llm_raw = [raises |-> TRUE, text |-> <<>>] /\ html_result = NoResult

IdleMatch ==
    /\ analysis = NoAnalysis
    /\ manifest = <<>>
    /\ max_models = DEFAULT_MAX_MODELS

IdleSynth ==
    /\ audio_urls = EmptyDict
    /\ synth_i = 1
    /\ audio_result = DictValue(EmptyDict)
    /\ stored = {}

\* nothing has been called yet
IdleCalls ==
    /\ attachment = <<>>
    /\ attempts = <<>>
    /\ llm_calls = 0
    /\ analysis_result = NoAnalysisResult
    /\ manifest_calls = <<>>
    /\ in_flight = {}
    /\ narration_calls = <<>>

\* generate.py line 47: _services is None
NoServices == 0

\* no coroutine is running on the event loop
NoRequest == 0

\* no concurrent request is being served
IdleProcess ==
    /\ _services = NoServices
    /\ caches = <<>>
    /\ reqs = <<>>
    /\ running = NoRequest
    /\ loads = <<>>
    /\ audio_files = EmptyDict

IdleHistory == IdleCalls /\ IdleProcess

IdleRequest ==
    /\ manifest_cache = Unloaded
    /\ upload = [content_type |-> "text/plain", size |-> 0, filename |-> NotesTxt]
    /\ tmp_file = "none"
    /\ response = NoResponse
    /\ IdleHistory

\* generate_html called directly on every collaborator outcome
InitHtml ==
    /\ pc = "generate_html"
    /\ endpoint = "unit"
    /\ started = <<"assemble">>
    /\ llm_raw \in LLMOutcomes
    /\ html_result = NoResult
    /\ IdleMatch /\ models = <<>>
    /\ narrations = EmptyDict /\ narr_i = 1
    /\ api_key = <<None>> /\ local_mode = FALSE /\ IdleSynth
    /\ IdleRequest

NextHtml == GenerateHtmlCall

SpecHtml == InitHtml /\ [][NextHtml]_vars

\* match_models called directly on every analysis, catalog and max_models
InitMatch ==
    /\ pc = "match_models"
    /\ endpoint = "unit"
    /\ started = <<"match">>
    /\ analysis \in Analyses
    /\ manifest \in Manifests
    /\ max_models \in 0..MaxK
    /\ models = <<>>
    /\ IdleHtml
    /\ narrations = EmptyDict /\ narr_i = 1
    /\ api_key = <<None>> /\ local_mode = FALSE /\ IdleSynth
    /\ IdleRequest

NextMatch == MatchModelsCall

SpecMatch == InitMatch /\ [][NextMatch]_vars

\* the selected items generate_narrations is called on
SelectedLists ==
    {[i \in 1..Len(ns) |-> MatchedModel(ModelInfo(i,
          [keywords |-> <<"heart">>, category |-> "anatomy", name |-> ns[i],
           description |-> <<"a", " ", "model">>]), 11)] :
        ns \in SeqsUpTo({<<"Model">>, <<"Human", " ", "Heart">>}, MaxItems)}

InitNarr ==
    /\ pc = "narrate"
    /\ endpoint = "unit"
    /\ started = <<"narrate">>
    /\ models \in SelectedLists
    /\ narrations = EmptyDict /\ narr_i = 1
    /\ IdleHtml /\ IdleMatch
    /\ api_key = <<None>> /\ local_mode = FALSE /\ IdleSynth
    /\ IdleRequest

NextNarr == NarrateItem \/ NarrateReturn

SpecNarr == InitNarr /\ [][NextNarr]_vars

\* the narration maps synthesize_audio is called on
NarrationMaps ==
    {[i \in 1..Len(ts) |-> [k |-> ModelIds[i], v |-> ts[i]]] :
        ts \in SeqsUpTo({<<"Hi.">>, Fallback(<<"Model">>)}, MaxItems)}

InitSynth ==
    /\ pc = "synthesize"
    /\ endpoint = "unit"
    /\ started = <<"synthesize">>
    /\ narrations \in NarrationMaps
    /\ narr_i = 1
    /\ api_key \in ApiKeys
    /\ local_mode \in BOOLEAN
    /\ IdleSynth
    /\ IdleHtml /\ IdleMatch /\ models = <<>>
    /\ IdleRequest

NextSynth == SynthesizeStart \/ SynthRequest \/ SynthItem \/ SynthReturn

SpecSynth == InitSynth /\ [][NextSynth]_vars

\* the characters titles are made of
TitleChars == {"a", "7", "é", " ", "-", "_", "!", "."}

\* n times the letter a
Pad(n) == [i \in 1..n |-> "a"]

\* titles shorter than, as long as and longer than the 50 characters kept
Titles ==
    {Pad(n) \o t : n \in {0, 48, 49, 50}, t \in SeqsUpTo(TitleChars, MaxTitleLen)}

\* the file name computed for every title
InitTitle ==
    /\ pc = "safe_title"
    /\ endpoint = "unit"
    /\ started = <<"assemble">>
    /\ \E t \in Titles : analysis = [NoAnalysis EXCEPT !.title = t]
    /\ manifest = <<>>
    /\ max_models = DEFAULT_MAX_MODELS
    /\ models = <<>>
    /\ IdleHtml
    /\ narrations = EmptyDict /\ narr_i = 1
    /\ api_key = <<None>> /\ local_mode = FALSE /\ IdleSynth
    /\ IdleRequest

NextTitle == SafeFilenameCall

SpecTitle == InitTitle /\ [][NextTitle]_vars

\* the number of pieces a document of the substitution pass is made of
MaxPieces == 3

\* the items whose audio the pass handles
SubstIds == <<"m1", "m2">>

\* the reference upload_audio returns for an item
RefOf(local, id) == AudioUrl(local, AudioFilename(id))

\* the inlined audio of an item: a data URI of its bytes
DataUriOf(id) ==
    <<"data:audio/mpeg;base64,", IF id = "m1" THEN "QUJD" ELSE "REVG">>

\* a data URI whose last characters are the beginning of the local reference
\* of the item ('/', letters and digits are characters of base64)
DataUriEndingInRef(id) == DataUriOf(id) \o <<"/static/audio/", id>>

\* the inlined values an item can have; the public URL of a blob holds ':'
\* and '.', which no base64 text holds
DataUris(local, id) ==
    {DataUriOf(id)} \cup (IF local THEN {DataUriEndingInRef(id)} ELSE {})

\* what a document holds: references, parts of references and other markup
Pieces(local) ==
    {RefOf(local, "m1"), RefOf(local, "m2"), <<"<p>">>, <<"m1">>, <<".mp3">>,
     <<"<audio src=\"">>}

RECURSIVE Concat(_)
Concat(ps) == IF ps = <<>> THEN <<>> ELSE Head(ps) \o Concat(Tail(ps))

\* the documents generate_html can have returned
SubstHtmls(local) == {Concat(ps) : ps \in SeqsUpTo(Pieces(local), MaxPieces)}

\* the mappings over the items, in every insertion order
SubstMaps(val) ==
    {<<>>} \cup {<<[k |-> id, v |-> val[id]]>> : id \in Range(SubstIds)}
    \cup {<<[k |-> p[1], v |-> val[p[1]]], [k |-> p[2], v |-> val[p[2]]]>> :
              p \in {q \in Range(SubstIds) \X Range(SubstIds) : q[1] # q[2]}}

\* the substitution pass run on every document and every pair of mappings
InitSubst ==
    /\ pc = "substitute"
    /\ endpoint = "unit"
    /\ started = <<"assemble">>
    /\ local_mode \in BOOLEAN
    /\ llm_raw = [raises |-> TRUE, text |-> <<>>]
    /\ \E h \in SubstHtmls(local_mode) : html_result = HtmlReturn(h)
    /\ \E urls \in SubstMaps([id \in Range(SubstIds) |-> RefOf(local_mode, id)]),
          val \in [Range(SubstIds) -> UNION {DataUris(local_mode, id) :
                                                   id \in Range(SubstIds)}] :
             /\ \A id \in Range(SubstIds) : val[id] \in DataUris(local_mode, id)
             /\ \E b64 \in SubstMaps(val) : audio_result = AudioResult(urls, b64)
    /\ IdleMatch
    /\ models = <<>>
    /\ narrations = EmptyDict /\ narr_i = 1
    /\ api_key = <<"sk_", "1234">>
    /\ audio_urls = EmptyDict /\ synth_i = 1 /\ stored = {}
    /\ IdleRequest

NextSubst == SubstituteCall

SpecSubst == InitSubst /\ [][NextSubst]_vars

\* one process serving GET /models requests one after the other while the
\* stored catalog changes
InitCache ==
    /\ pc = "list_models"
    /\ endpoint = "models"
    /\ started = <<>>
    /\ manifest \in StoredCatalogs
    /\ max_models = DEFAULT_MAX_MODELS
    /\ analysis = NoAnalysis
    /\ models = <<>>
    /\ IdleHtml
    /\ narrations = EmptyDict /\ narr_i = 1
    /\ api_key = <<None>> /\ local_mode = FALSE /\ IdleSynth
    /\ IdleRequest

NextCache == ListModels \/ StorageChange

SpecCache == InitCache /\ [][NextCache]_vars

----------------------------------------------------------------------------
(* Concurrent requests of one process: the Services object and its         *)
(* manifest cache (generate.py lines 31-55) and the stored audio files     *)
(* (gcs.py lines 89-122), shared by every request.                         *)

MaxRequests == 2

Requests == 1..MaxRequests

\* the catalogs the storage holds while the requests are served
ConcCatalogs ==
    {<<>>, CHOOSE m \in StoredCatalogs : Len(m) = 1}

\* the items the requests have audio synthesized for
ConcItems == {ModelIds[1], ModelIds[2]}

\* a request before its dependencies are resolved; item is the id of the
\* model its narration is about
NewRequest(item) ==
    [pc |-> "resolve", services |-> NoServices, got |-> FALSE, manifest |-> <<>>,
     item |-> item, ref |-> <<>>]

\* the variables of a single request's pipeline, untouched here
PipelineVars ==
    <<pc, endpoint, llm_raw, html_result, analysis, max_models, models,
      narrations, narr_i, api_key, audio_urls, synth_i, audio_result, stored,
      manifest_cache, upload, tmp_file, started, response, attachment,
      attempts, llm_calls, analysis_result, manifest_calls, narration_calls,
      in_flight, local_mode>>

\* generate.py line 53, in a worker thread (get_services is a plain def, which
\* FastAPI runs in its thread pool): the test of the global
ResolveCheck(r) ==
    /\ reqs[r].pc = "resolve"
    /\ reqs' = [reqs EXCEPT ![r].pc = IF _services = NoServices THEN "create"
                                      ELSE "return"]
    /\ UNCHANGED <<PipelineVars, manifest, _services, caches, running, loads,
                   audio_files>>

\* generate.py lines 34-38, 54: a Services object with an empty cache is built
\* and assigned to the global
ResolveCreate(r) ==
    /\ reqs[r].pc = "create"
    /\ caches' = Append(caches, Unloaded)
    /\ _services' = Len(caches) + 1
    /\ reqs' = [reqs EXCEPT ![r].pc = "return"]
    /\ UNCHANGED <<PipelineVars, manifest, running, loads, audio_files>>

\* generate.py line 55: the value of the global is returned to the request
ResolveReturn(r) ==
    /\ reqs[r].pc = "return"
    /\ reqs' = [reqs EXCEPT ![r].pc = "get_manifest", ![r].services = _services]
    /\ UNCHANGED <<PipelineVars, manifest, _services, caches, running, loads,
                   audio_files>>

\* gcs.py lines 54-87: get_manifest, _get_local_manifest and _get_gcs_manifest
\* await nothing that is pending (read_text and download_as_text are blocking
\* calls), so the awaited load runs to its end without yielding the event loop
load_suspends == FALSE

\* a load that has been asked of the storage and has not ended
PendingLoad(r, s) == [by |-> r, services |-> s, state |-> "pending", models |-> <<>>]

\* the index of the pending load of request r
LoadOf(r) == CHOOSE k \in 1..Len(loads) : loads[k].by = r /\ loads[k].state = "pending"

\* generate.py lines 42-43: the emptiness test; on an empty cache the load is
\* asked of the storage
GetManifestCheck(r) ==
    /\ reqs[r].pc = "get_manifest"
    /\ running = NoRequest
    /\ IF caches[reqs[r].services].loaded
       THEN /\ reqs' = [reqs EXCEPT ![r].pc = "synthesize", ![r].got = TRUE,
                                    ![r].manifest = caches[reqs[r].services].models]
            /\ UNCHANGED <<loads, running>>
       ELSE /\ loads' = Append(loads, PendingLoad(r, reqs[r].services))
            /\ reqs' = [reqs EXCEPT ![r].pc = "loading"]
            /\ running' = IF load_suspends THEN NoRequest ELSE r
    /\ UNCHANGED <<PipelineVars, manifest, _services, caches, audio_files>>

\* generate.py lines 43-44, gcs.py lines 60-87: the load ends; its result is
\* assigned to the cache and returned, its exception leaves get_manifest
GetManifestLoaded(r) ==
    /\ reqs[r].pc = "loading"
    /\ running \in {NoRequest, r}
    /\ \E outcome \in {"ok", "fail"} :
          IF outcome = "ok"
          THEN /\ caches' = [caches EXCEPT ![reqs[r].services] =
                                [loaded |-> TRUE, models |-> manifest]]
               /\ loads' = [loads EXCEPT ![LoadOf(r)].state = "ok",
                                         ![LoadOf(r)].models = manifest]
               /\ reqs' = [reqs EXCEPT ![r].pc = "synthesize", ![r].got = TRUE,
                                       ![r].manifest = manifest]
          ELSE /\ loads' = [loads EXCEPT ![LoadOf(r)].state = "fail"]
               /\ reqs' = [reqs EXCEPT ![r].pc = "failed"]
               /\ UNCHANGED caches
    /\ running' = NoRequest
    /\ UNCHANGED <<PipelineVars, manifest, _services, audio_files>>

\* the audio synthesized from the narration of request r
AudioOf(r) == [narration_of |-> r, complete |-> TRUE]

\* gcs.py lines 105, 117: what upload_audio leaves at the path: the audio of
\* the request, or its first bytes when write_bytes raised while writing
WrittenAudio(r, outcome) == [AudioOf(r) EXCEPT !.complete = upload_complete(outcome)]

\* narration.py lines 115-151, gcs.py lines 99-122: the synthesis request for
\* the request's item is answered; on status 200 the audio is written under
\* <id>.mp3, in full or in part, and the reference is returned to the request
\* when upload_audio returned (matching and narration, between get_manifest
\* and this point, touch no shared state)
SynthStore(r) ==
    /\ reqs[r].pc = "synthesize"
    /\ running = NoRequest
    /\ \E outcome \in SynthOutcomes(local_mode) :
          /\ audio_files' =
                IF upload_stores(outcome)
                THEN DictSet(audio_files,
                             StoredPath(local_mode, AudioFilename(reqs[r].item)),
                             WrittenAudio(r, outcome))
                ELSE audio_files
          /\ reqs' = [reqs EXCEPT
                         ![r].pc = "done",
                         ![r].ref = IF outcome = "ok"
                                    THEN AudioUrl(local_mode,
                                                  AudioFilename(reqs[r].item))
                                    ELSE <<>>]
    /\ UNCHANGED <<PipelineVars, manifest, _services, caches, running, loads>>

\* variant: a change of the stored catalog empties the caches
CatalogChangeInvalidates ==
    /\ manifest' \in ConcCatalogs \ {manifest}
    /\ caches' = [s \in 1..Len(caches) |-> Unloaded]
    /\ UNCHANGED <<PipelineVars, _services, reqs, running, loads, audio_files>>

\* the catalog in the storage is replaced while requests are served; nothing
\* in the process takes notice
CatalogChange ==
    /\ manifest' \in ConcCatalogs \ {manifest}
    /\ UNCHANGED <<PipelineVars, _services, caches, reqs, running, loads,
                   audio_files>>

InitConc ==
    /\ pc = "serving"
    /\ endpoint = "v1"
    /\ started = <<>>
    /\ manifest \in ConcCatalogs
    /\ max_models = DEFAULT_MAX_MODELS
    /\ analysis = NoAnalysis
    /\ models = <<>>
    /\ IdleHtml
    /\ narrations = EmptyDict /\ narr_i = 1
    /\ api_key = <<"sk_", "1234">> /\ local_mode \in BOOLEAN /\ IdleSynth
    /\ manifest_cache = Unloaded
    /\ upload = [content_type |-> "text/plain", size |-> 0, filename |-> NotesTxt]
    /\ tmp_file = "none"
    /\ response = NoResponse
    /\ IdleCalls
    /\ _services = NoServices
    /\ caches = <<>>
    /\ running = NoRequest
    /\ loads = <<>>
    /\ audio_files = EmptyDict
    /\ reqs \in [Requests -> {NewRequest(i) : i \in ConcItems}]

NextConc ==
    \/ \E r \in Requests : ResolveCheck(r)
    \/ \E r \in Requests : ResolveCreate(r)
    \/ \E r \in Requests : ResolveReturn(r)
    \/ \E r \in Requests : GetManifestCheck(r)
    \/ \E r \in Requests : GetManifestLoaded(r)
    \/ \E r \in Requests : SynthStore(r)
    \/ CatalogChange

\* worker threads and the event loop keep running what is ready
SpecConc == InitConc /\ [][NextConc]_vars /\ WF_vars(NextConc)

\* one request through /generate or /generate-v2
Init ==
    /\ pc = "validate"
    /\ endpoint \in {"v1", "v2"}
    /\ started = <<"validate">>
    /\ upload \in Uploads
    /\ api_key \in ApiKeys
    /\ local_mode \in BOOLEAN
    /\ manifest \in PipeManifests
    /\ manifest_cache = Unloaded
    /\ tmp_file = "none"
    /\ response = NoResponse
    /\ analysis = NoAnalysis
    /\ max_models = DEFAULT_MAX_MODELS
    /\ models = <<>>
    /\ narrations = EmptyDict /\ narr_i = 1
    /\ IdleSynth
    /\ IdleHtml
    /\ IdleHistory

Next ==
    \/ Validate
    \/ Extract
    \/ Analyze
    \/ Match
    \/ NarrateItem
    \/ NarrateReturn
    \/ SynthesizeStart
    \/ SynthRequest
    \/ SynthItem
    \/ SynthReturn
    \/ Assemble
    \/ AssembleV2

Spec == Init /\ [][Next]_vars


----------------------------------------------------------------------------
(* Properties.                                                             *)

\* C1 (SpecHtml): whenever generate_html returns a document, the document
\* starts with the leading token <!DOCTYPE html> and ends with the closing
\* token </html>; otherwise the call raised HTMLGenerationError.
C1_ReturnedDocumentWellFormed ==
    html_result.kind = "return" =>
        /\ StartsWith(html_result.html, DOCTYPE)
        /\ EndsWith(html_result.html, HTML_CLOSE)

\* C2 (Spec): a request that ran the synthesis stage without a usable
\* text-to-speech credential, and whose assembly did not fail, ends in a
\* success response whose audio mappings are empty.
C2_NoCredentialStillSucceeds ==
    (/\ pc = "done"
     /\ tts_skipped(api_key)
     /\ "synthesize" \in Range(started)
     /\ response.error_code # "HTML_GENERATION_FAILED")
    => (response.kind = "success" /\ audio_result.items = EmptyDict)

\* C3 (Spec): a request that does not end in success ends in exactly one
\* structured {detail, error_code} error; it never ends with an exception that
\* no handler clause mapped.
C3_EveryFailureIsStructured ==
    (pc = "done" /\ response.kind # "success")
    => (response.kind = "http_error" /\ response.error_code # "")

GeneratedNarrations == {Strip(t) : t \in NarrationTexts}

\* C4 (SpecNarr): when generate_narrations returns, the map has exactly one
\* entry per selected item (its key set is the set of item ids) and every
\* value is the stripped generated text or the item's fallback text.
C4_OneNarrationPerItem ==
    pc = "returned" =>
        /\ DictKeys(narrations) = {models[i].id : i \in 1..Len(models)}
        /\ Len(narrations) = Cardinality(DictKeys(narrations))
        /\ \A i \in 1..Len(models) :
              DictGet(narrations, models[i].id)
                  \in GeneratedNarrations \cup {Fallback(models[i].name)}

\* C4 witness: a call on two or more items in which every generation failed
C4_Witness ==
    /\ pc = "returned"
    /\ Len(models) >= 2
    /\ \A i \in 1..Len(models) :
          DictGet(narrations, models[i].id) = Fallback(models[i].name)

\* C5 (SpecMatch): the list match_models returns has at most max_models
\* entries, its scores never increase, and entries of equal score are in
\* catalog order.
C5_TopKSortedStable ==
    pc = "returned" =>
        /\ Len(models) <= max_models
        /\ \A i, j \in 1..Len(models) :
              i < j =>
                 /\ models[i].score >= models[j].score
                 /\ models[i].score = models[j].score
                       => PosOf(manifest, models[i].id) < PosOf(manifest, models[j].id)

\* C5 witness: more entries score than are returned, the catalog order was
\* changed by the sort, and two returned entries tie
C5_Witness ==
    /\ pc = "returned"
    /\ max_models >= 2
    /\ Len(models) = max_models
    /\ Len(ScoredModels(analysis, manifest)) > max_models
    /\ models[1].score = models[2].score
    /\ PosOf(manifest, models[1].id) > 1


\* the ids of the entries match_models returned
ReturnedIds == {models[i].id : i \in 1..Len(models)}

\* the entry's keywords, name words and description words share no term with
\* the analysis term set
NoKeywordNameDescOverlap(a, m) ==
    /\ search_terms(a) \cap {Lower(kw) : kw \in Range(m.keywords)} = {}
    /\ search_terms(a) \cap model_name_words(m) = {}
    /\ search_terms(a) \cap model_desc_words(m) = {}

\* C6 as stated (SpecMatch): an entry whose keywords, name words and
\* description words share no term with the analysis term set and whose
\* category differs from the subject area scores 0 and is never returned.
C6_AsStated ==
    pc = "returned" =>
        \A i \in 1..Len(manifest) :
            (/\ NoKeywordNameDescOverlap(analysis, manifest[i])
             /\ Lower(manifest[i].category) # Lower(analysis.subject_area))
            => (/\ Score(analysis, manifest[i]) = 0
                /\ manifest[i].id \notin ReturnedIds)

\* C6 amended (SpecMatch): an entry whose keywords, name words and
\* description words share no term with the analysis term set and whose
\* lower-cased category is not in the analysis term set either (the term set
\* contains the subject area) scores 0 and is never returned.
C6_ZeroOverlapExcluded ==
    pc = "returned" =>
        \A i \in 1..Len(manifest) :
            (/\ NoKeywordNameDescOverlap(analysis, manifest[i])
             /\ Lower(manifest[i].category) \notin search_terms(analysis))
            => (/\ Score(analysis, manifest[i]) = 0
                /\ manifest[i].id \notin ReturnedIds)

\* C6 witness: such an entry is left out of a result that has room for it and
\* that contains another entry of the same catalog
C6_Witness ==
    /\ pc = "returned"
    /\ models # <<>>
    /\ Len(models) < max_models
    /\ \E i \in 1..Len(manifest) :
          /\ NoKeywordNameDescOverlap(analysis, manifest[i])
          /\ Lower(manifest[i].category) \notin search_terms(analysis)
          /\ manifest[i].id \notin ReturnedIds

\* two catalog entries that differ in nothing but the category (and the id)
SameExceptCategory(m1, m2) ==
    /\ m1.keywords = m2.keywords
    /\ m1.name = m2.name
    /\ m1.description = m2.description
    /\ m1.category # m2.category

\* the first entry's category is the subject area, the second's is not
BonusPair(a, m1, m2) ==
    /\ SameExceptCategory(m1, m2)
    /\ Lower(m1.category) = Lower(a.subject_area)
    /\ Lower(m2.category) # Lower(a.subject_area)

\* C7 as stated (SpecMatch): of two entries identical except that the first's
\* category is the subject area, the first scores exactly 5 more.
C7_AsStated ==
    pc = "returned" =>
        \A i, j \in 1..Len(manifest) :
            BonusPair(analysis, manifest[i], manifest[j])
            => Score(analysis, manifest[i]) = Score(analysis, manifest[j]) + 5

\* 3 when the entry's category is a search term that is not already one of its
\* keywords (it then adds one term to the keyword overlap), else 0
CategoryTermPoints(a, m) ==
    IF /\ Lower(m.category) \in search_terms(a)
       /\ Lower(m.category) \notin {Lower(kw) : kw \in Range(m.keywords)}
    THEN 3 ELSE 0

\* C7 amended (SpecMatch): of two such entries the first scores 5 more than
\* the second plus the difference of their category-term points: the category
\* is itself a keyword term worth 3 when it is in the analysis term set and
\* not among the entry's keywords, so the difference is 8, 5 or 2.
C7_BonusPlusCategoryTerm ==
    pc = "returned" =>
        \A i, j \in 1..Len(manifest) :
            BonusPair(analysis, manifest[i], manifest[j])
            => Score(analysis, manifest[i])
                 = Score(analysis, manifest[j]) + 5
                   + CategoryTermPoints(analysis, manifest[i])
                   - CategoryTermPoints(analysis, manifest[j])

\* C7 witness: a catalog with such a pair whose scores differ by 8, the first
\* entry's category being written in another letter case than the subject area
C7_Witness ==
    /\ pc = "returned"
    /\ \E i, j \in 1..Len(manifest) :
          /\ BonusPair(analysis, manifest[i], manifest[j])
          /\ manifest[i].category # analysis.subject_area
          /\ Score(analysis, manifest[i]) = Score(analysis, manifest[j]) + 8

\* the example of C8: one entry, keywords {heart, cardiac}, category anatomy;
\* subject area anatomy, suggested keywords {heart}, no topics, no concepts
C8_Scenario ==
    /\ pc = "returned"
    /\ max_models >= 1
    /\ manifest = <<ModelInfo(1, [keywords |-> <<"heart", "cardiac">>,
                                  category |-> "anatomy", name |-> <<"Model">>,
                                  description |-> <<"a", " ", "model">>])>>
    /\ analysis.suggested_model_keywords = <<"heart">>
    /\ analysis.main_topics = <<>>
    /\ analysis.key_concepts = <<>>
    /\ analysis.subject_area = "anatomy"

\* C8 as stated (SpecMatch): in the example the entry is given the score 8.
C8_AsStated ==
    C8_Scenario => (Len(models) = 1 /\ models[1].score = 8)

\* C8 amended (SpecMatch): in the example the entry is given the score 11:
\* 3 for the keyword heart, 3 for the category term anatomy, which is in the
\* analysis term set as the subject area, and the bonus of 5.
C8_ExampleScoresEleven ==
    C8_Scenario => (Len(models) = 1 /\ models[1].score = 11)

\* C8 witness: the example has been run
C8_Witness == C8_Scenario /\ Len(models) = 1 /\ models[1].id = "m1"

\* no term of the analysis occurs in any term set of any catalog entry
ZeroOverlapAll(a, ms) ==
    \A i \in 1..Len(ms) :
        search_terms(a) \cap (model_terms(ms[i]) \cup model_name_words(ms[i])
                              \cup model_desc_words(ms[i])) = {}

\* C9 (Spec): once the match stage has loaded the catalog and the analysis
\* shares no term with any entry, match_models has returned the empty list,
\* the request has ended with 422 / NO_MATCHING_MODELS and none of the
\* narrate, synthesize and assemble stages has been started.
C9_NoOverlapIsNoMatchingModels ==
    (/\ "match" \in Range(started)
     /\ manifest_cache.loaded
     /\ ZeroOverlapAll(analysis, manifest_cache.models))
    => (/\ pc = "done"
        /\ models = <<>>
        /\ response = HttpError(422, "NO_MATCHING_MODELS")
        /\ Range(started) \cap {"narrate", "synthesize", "assemble"} = {})

\* C9 witness: a request ended that way on a catalog that is not empty
C9_Witness ==
    /\ pc = "done"
    /\ "match" \in Range(started)
    /\ manifest_cache.loaded
    /\ Len(manifest_cache.models) >= 2
    /\ ZeroOverlapAll(analysis, manifest_cache.models)
    /\ response.error_code = "NO_MATCHING_MODELS"

\* C10 (SpecSynth): the keys of the mapping synthesize_audio builds and
\* returns are keys of the narration map, and it has no more entries.
C10_AudioKeysAreNarrated ==
    /\ DictKeys(audio_urls) \subseteq DictKeys(narrations)
    /\ DictKeys(audio_result.items) \subseteq DictKeys(narrations)
    /\ Len(audio_result.items) <= Len(narrations)

\* C10 witness: a call with a usable credential returned references for some
\* of the narrated items and not for others
C10_Witness ==
    /\ pc = "returned"
    /\ ~tts_skipped(api_key)
    /\ audio_result.items # EmptyDict
    /\ Len(audio_result.items) < Len(narrations)

\* C11 (SpecSynth): the value synthesize_audio returns carries a reference
\* mapping (urls) and an inlined-encoded mapping (base64), and every id of the
\* reference mapping is an id of the encoded mapping.
C11_EveryReferenceHasEncoding ==
    (pc = "returned" /\ started = <<"synthesize">>) =>
        /\ HasAttr(audio_result, "urls")
        /\ HasAttr(audio_result, "base64")
        /\ DictKeys(audio_result.urls) \subseteq DictKeys(audio_result.base64)

\* sub in h: the token sequence sub occurs verbatim in h
Occurs(h, sub) ==
    \E i \in 1..(Len(h) - Len(sub) + 1) : SubSeq(h, i, i + Len(sub) - 1) = sub

Overlaps(v, ref) ==
    \/ Occurs(v, ref)
    \/ Occurs(ref, v)
    \/ \E k \in 1..Len(v) :
          k <= Len(ref) /\ SubSeq(v, Len(v) - k + 1, Len(v)) = SubSeq(ref, 1, k)
    \/ \E k \in 1..Len(v) :
          k <= Len(ref) /\ SubSeq(v, 1, k) = SubSeq(ref, Len(ref) - k + 1, Len(ref))

\* the inlined values the pass puts into the document
SubstitutedValues ==
    {DictGet(audio_result.base64, audio_result.urls[j].k) :
        j \in {n \in 1..Len(audio_result.urls) :
                  audio_result.urls[n].k \in DictKeys(audio_result.base64)}}

C13_TempFileReleased ==
    /\ (pc = "done" /\ response.kind = "http_error" /\ response.status \in {400, 413})
          => tmp_file = "none"
    /\ (pc = "done" /\ tmp_file # "none") => tmp_file = "removed"

\* the order of the stages as the claim gives it
ClaimedStageOrder(ep) ==
    IF ep = "v2"
    THEN <<"validate", "extract", "analyze", "synthesize", "assemble">>
    ELSE <<"validate", "extract", "analyze", "match", "narrate", "synthesize",
           "assemble">>

\* the stage a failure response comes from
FailedStage(resp) ==
    CASE resp.error_code \in {"UNSUPPORTED_FILE_TYPE", "FILE_TOO_LARGE"} -> "validate"
      [] resp.error_code \in {"EXTRACTION_FAILED", "EMPTY_DOCUMENT"} -> "extract"
      [] resp.exc = "OSError" -> "validate"
      [] resp.exc = "ValueError" -> IF tmp_file = "none" THEN "validate" ELSE "extract"
      [] resp.exc = "UnicodeDecodeError" -> "extract"
      [] resp.error_code \in {"ANALYSIS_FAILED", "CONCEPT_EXTRACTION_FAILED"} -> "analyze"
      [] resp.error_code = "NO_MATCHING_MODELS" -> "match"
      [] resp.exc = "ManifestLoadError" -> "match"
      [] resp.error_code = "HTML_GENERATION_FAILED" -> "assemble"
      [] resp.exc = "AttributeError" -> "assemble"

\* C14 (Spec): within one request the stages are started in the order
\* Validate, Extract, Analyze, Match, Narrate, Synthesize, Assemble (without
\* Match and Narrate in /generate-v2), one at a time and each only after the
\* one before it has completed; once a stage has failed the request has
\* terminated and the failed stage is the last one that was started.
C14_StagesInOrder ==
    /\ Len(started) <= Len(ClaimedStageOrder(endpoint))
    /\ started = SubSeq(ClaimedStageOrder(endpoint), 1, Len(started))
    /\ pc # "done" => Last(started) = (IF pc \in {"synth_loop", "synth_wait"}
                                       THEN "synthesize" ELSE pc)
    /\ response.kind \in {"http_error", "unhandled"} =>
          pc = "done" /\ Last(started) = FailedStage(response)

\* C14 witness: a /generate request went through all seven stages in order
\* and ended in the last one; another ended in the matching stage
C14_Witness ==
    /\ pc = "done"
    /\ endpoint = "v1"
    /\ started = <<"validate", "extract", "analyze", "match", "narrate",
                   "synthesize", "assemble">>
    /\ response.kind # "none"

\* C15 (SpecCache): once a get_manifest call has completed successfully,
\* every later call completes successfully, returns the manifest that call
\* returned and asks the storage collaborator for nothing.
C15_RetainedManifestReturned ==
    \A i \in 1..Len(manifest_calls) : \A j \in 1..Len(manifest_calls) :
        (i < j /\ ~manifest_calls[i].raised) =>
            /\ ~manifest_calls[j].raised
            /\ manifest_calls[j].models = manifest_calls[i].models
            /\ ~manifest_calls[j].load_issued

\* C15 witness: two calls succeeded, and by the second one the stored catalog
\* was no longer the one that is retained and returned
C15_Witness ==
    /\ Len(manifest_calls) >= 2
    /\ ~manifest_calls[1].raised
    /\ ~manifest_calls[2].raised
    /\ manifest_calls[2].models = manifest_cache.models
    /\ manifest # manifest_cache.models

\* C16 (SpecSynth): with a configured credential synthesize_audio never ends
\* by an exception, whatever happens for each item (non-200 answer, transport
\* exception, upload exception): every item of the narration map is tried, in
\* order, also after an item that failed, and the returned mapping has an
\* entry for an item exactly if its request and its upload succeeded.
C16_SynthesisNeverFailsAsAWhole ==
    /\ audio_result.type # "exception"
    /\ pc = "synth_loop" => Len(attempts) = synth_i - 1
    /\ (pc = "returned" /\ ~tts_skipped(api_key)) =>
          /\ Len(attempts) = Len(narrations)
          /\ \A i \in 1..Len(attempts) :
                /\ attempts[i].id = narrations[i].k
                /\ attempts[i].outcome # "ok" =>
                      attempts[i].id \notin DictKeys(audio_result.items)
                /\ attempts[i].outcome = "ok" =>
                      attempts[i].id \in DictKeys(audio_result.items)

\* C16 witness: a call returned after an upload exception and a transport
\* exception, and an item tried after them is in the result
C16_Witness ==
    /\ pc = "returned"
    /\ ~tts_skipped(api_key)
    /\ Len(attempts) = 3
    /\ attempts[1].outcome = "upload_error"
    /\ attempts[2].outcome \in {"transport_error", "non200"}
    /\ attempts[3].outcome = "ok"
    /\ DictKeys(audio_result.items) = {attempts[3].id}

\* the exception json.loads / model_validate / the collaborator ends with
UnderlyingCause(llm) ==
    IF llm.raises THEN "Exception"
    ELSE IF ~llm.json THEN "JSONDecodeError"
    ELSE "ValidationError"

\* the answer is a JSON object that has every required key and only values
\* the schema of the endpoint's result allows
ConformsToSchema(ep, llm) ==
    /\ ~llm.raises
    /\ llm.json
    /\ llm.data[1].absent = {}
    /\ IF ep = "v2"
       THEN /\ llm.data[1].graph.layout_type \in LAYOUT_TYPES
            /\ \A c \in Range(llm.data[1].graph.concepts) : c.importance \in 1..5
       ELSE /\ llm.data[1].subject_area \in SUBJECT_AREAS
            /\ llm.data[1].difficulty_level \in DIFFICULTY_LEVELS
            /\ \A c \in Range(llm.data[1].key_concepts) : c.importance \in 1..5

\* C17 (Spec): a call of analyze_content (/generate) or extract_concept_graph
\* (/generate-v2) makes exactly one collaborator call; when the collaborator
\* raises, or its text is not JSON, or the JSON object fails the schema, the
\* call raises AnalysisError whose cause is that underlying exception;
\* otherwise it returns the object the collaborator sent, which is valid.
C17_AnalysisOneCallOrAnalysisError ==
    analysis_result.kind # "none" =>
        /\ analysis_result.calls = 1
        /\ narr_i = 1 => llm_calls = 1
        /\ IF ConformsToSchema(endpoint, analysis_result.llm)
           THEN /\ analysis_result.kind = "return"
                /\ analysis = (IF endpoint = "v2"
                               THEN analysis_result.llm.data[1].graph
                               ELSE ContentAnalysisOf(analysis_result.llm.data[1]))
           ELSE /\ analysis_result.kind = "raise"
                /\ analysis_result.exc = "AnalysisError"
                /\ analysis_result.cause = UnderlyingCause(analysis_result.llm)
                /\ pc = "done"

\* C17 witness: the collaborator answered a JSON object outside the schema
\* (an unknown subject area) and the one call ended in AnalysisError
C17_Witness ==
    /\ endpoint = "v1"
    /\ analysis_result.kind = "raise"
    /\ analysis_result.cause = "ValidationError"
    /\ analysis_result.llm.data[1].subject_area \notin SUBJECT_AREAS
    /\ llm_calls = 1
    /\ response.error_code = "ANALYSIS_FAILED"

\* the characters the claim allows in the stem
StemChars == AlnumChars \cup {"-", "_"}

\* the stem as the claim derives it from the title: every character other
\* than an alphanumeric, a hyphen or an underscore (so also a space) becomes
\* an underscore, and the first 50 characters are kept
ClaimedStem(title) ==
    SlicePrefix([i \in 1..Len(title) |->
                    IF title[i] \in StemChars THEN title[i] ELSE "_"], 50)

\* C18 (SpecTitle): for every title the attachment file name is a stem
\* followed by _3D.html, where the stem has at most 50 characters, consists
\* of alphanumerics, hyphens and underscores only, and is the title with
\* every other character (spaces included) replaced by an underscore, cut
\* to its first 50 characters.
C18_AttachmentFilename ==
    pc = "returned" =>
        /\ attachment # <<>>
        /\ Last(attachment) = "_3D.html"
        /\ Len(Front(attachment)) <= 50
        /\ Range(Front(attachment)) \subseteq StemChars
        /\ Front(attachment) = ClaimedStem(analysis.title)

\* C18 witness: a title of more than 50 characters with a space and another
\* replaced character among the first 50 gave a stem of exactly 50 characters
C18_Witness ==
    /\ pc = "returned"
    /\ Len(analysis.title) > 50
    /\ analysis.title[49] = " "
    /\ analysis.title[50] = "!"
    /\ Len(attachment) = 51
    /\ attachment[49] = "_"
    /\ attachment[50] = "_"

\* C19 (Spec): a /generate-v2 request whose graph extraction returned a
\* schema-valid graph always terminates in Success, whatever happens to the
\* audio of each concept and whether or not the central concept id and the
\* relationship endpoints name concepts of the graph; the assembly makes no
\* text-generation call.
C19_ValidGraphEndsInSuccess ==
    (/\ endpoint = "v2"
     /\ pc = "done"
     /\ analysis_result.kind = "return") =>
        /\ response.kind = "success"
        /\ llm_calls = 1

\* C20 (Spec): a request that terminated in a stage did so with the one
\* status/code pair of that failure: 400 UNSUPPORTED_FILE_TYPE for a missing
\* or unsupported media type, 413 FILE_TOO_LARGE for an oversized payload,
\* 422 EXTRACTION_FAILED for an extraction failure, 422 EMPTY_DOCUMENT for
\* blank text (with the analyzer never called), 500 ANALYSIS_FAILED
\* (CONCEPT_EXTRACTION_FAILED in /generate-v2) for an analysis failure, a
\* structured server error for a manifest load failure, 422
\* NO_MATCHING_MODELS for an empty match, 500 HTML_GENERATION_FAILED for an
\* assembly failure.
C20_OnePairPerFailingStage ==
    pc = "done" =>
        CASE Last(started) = "validate" ->
                IF upload.content_type = None
                   \/ upload.content_type \notin SUPPORTED_MIME_TYPES
                THEN response = HttpError(400, "UNSUPPORTED_FILE_TYPE")
                ELSE response = HttpError(413, "FILE_TOO_LARGE")
          [] Last(started) = "extract" ->
                /\ response \in {HttpError(422, "EXTRACTION_FAILED"),
                                 HttpError(422, "EMPTY_DOCUMENT")}
                /\ analysis_result.kind = "none"
          [] Last(started) = "analyze" ->
                response = HttpError(500, IF endpoint = "v2"
                                          THEN "CONCEPT_EXTRACTION_FAILED"
                                          ELSE "ANALYSIS_FAILED")
          [] Last(started) = "match" ->
                IF manifest_calls[Len(manifest_calls)].raised
                THEN /\ response.kind = "http_error"
                     /\ response.status \in 500..599
                ELSE response = HttpError(422, "NO_MATCHING_MODELS")
          [] Last(started) = "assemble" ->
                \/ response.kind = "success"
                \/ response = HttpError(500, "HTML_GENERATION_FAILED")

\* the term set T of the claim: the lower-cased suggested keywords, main
\* topics, subject area and key-concept names
ClaimedTerms(a) ==
    {Lower(x) : x \in Range(a.suggested_model_keywords) \cup Range(a.main_topics)
                      \cup {a.subject_area}
                      \cup {a.key_concepts[i].name : i \in 1..Len(a.key_concepts)}}

\* the score of the claim for an analysis and a catalog entry
ClaimedScore(a, m) ==
    3 * Cardinality(ClaimedTerms(a)
                    \cap ({Lower(k) : k \in Range(m.keywords)} \cup {Lower(m.category)}))
    + 2 * Cardinality(ClaimedTerms(a) \cap Split(LowerStr(m.name)))
    + 1 * Cardinality(ClaimedTerms(a) \cap Split(LowerStr(m.description)))
    + (IF Lower(m.category) = Lower(a.subject_area) THEN 5 ELSE 0)

\* C21 (SpecMatch): the score stored in every entry match_models returns is
\* 3 times the number of analysis terms among the entry's lower-cased
\* keywords and category, plus 2 times the number among its lower-cased name
\* words, plus the number among its lower-cased description words, plus 5
\* when the lower-cased category is the lower-cased subject area; the
\* analysis terms are lower-cased too.
C21_ScoreFormula ==
    pc = "returned" =>
        \A i \in 1..Len(models) :
            /\ PosOf(manifest, models[i].id) # 0
            /\ models[i].score
                  = ClaimedScore(analysis, manifest[PosOf(manifest, models[i].id)])

\* C21 witness: a returned entry scores in all four parts, and its keyword,
\* its category and the analysis keyword match only after lower-casing
C21_Witness ==
    /\ pc = "returned"
    /\ "Cell" \in Range(analysis.suggested_model_keywords)
    /\ analysis.subject_area = "anatomy"
    /\ \E i \in 1..Len(models) :
          /\ models[i].category = "Anatomy"
          /\ "Cell" \in Range(models[i].keywords)
          /\ models[i].name = <<"Human", " ", "Heart">>
          /\ models[i].score = 15

\* the fallback text of the claim: built from the item's name and nothing else
ClaimedFallback(name) ==
    <<"This ">> \o name
    \o <<" represents a key concept from your document. ",
         "Click to explore and learn more about ">>
    \o [i \in 1..Len(name) |-> Lower(name[i])] \o <<".">>

\* C22 (SpecNarr): generate_narrations makes one collaborator call per
\* selected item, in list order, also after calls that failed; the entry of
\* every item is decided by the outcome of that item's own call alone: the
\* stripped text when the call succeeded, the fallback text built from the
\* item's name when it failed.
C22_OneCallPerItemIndependent ==
    /\ Len(narration_calls) = narr_i - 1
    /\ llm_calls = Len(narration_calls)
    /\ pc = "returned" => Len(narration_calls) = Len(models)
    /\ \A i \in 1..Len(narration_calls) :
          /\ narration_calls[i].id = models[i].id
          /\ DictGet(narrations, models[i].id)
                = (IF narration_calls[i].llm.raises
                   THEN ClaimedFallback(models[i].name)
                   ELSE Strip(narration_calls[i].llm.text))
    /\ DictKeys(narrations) = {narration_calls[i].id : i \in 1..Len(narration_calls)}

\* C22 witness: of three items the first and the third failed, the second was
\* called between them and keeps its generated text
C22_Witness ==
    /\ pc = "returned"
    /\ Len(models) = 3
    /\ narration_calls[1].llm.raises
    /\ ~narration_calls[2].llm.raises
    /\ narration_calls[3].llm.raises
    /\ DictGet(narrations, models[2].id) = <<"Hi.">>
    /\ DictGet(narrations, models[3].id) = ClaimedFallback(models[3].name)

\* the response of the synthesis request carried status 200
Status200(outcome) ==
    outcome \in {"ok", "upload_error", "public_error", "partial_write"}

\* the place of the file named <id>.mp3 in the storage in use
ClaimedPath(id) ==
    (IF local_mode THEN <<"local_models", "/audio/">> ELSE <<"audio/">>)
    \o <<id, ".mp3">>

\* the items before the one the loop is at have each been answered, in order
PreviousAnswered ==
    /\ Len(attempts) = synth_i - 1
    /\ \A j \in 1..Len(attempts) : attempts[j].id = narrations[j].k

\* C23 as stated: whenever a request is in flight, every earlier item whose
\* request returned status 200 has its audio in storage.
C23_AsStated ==
    in_flight # {} =>
        \A j \in 1..Len(attempts) :
            Status200(attempts[j].outcome) => ClaimedPath(attempts[j].id) \in stored

\* C23 (SpecSynth): at most one synthesis request is in flight; it is the
\* request of the item the loop is at and is sent only after every earlier
\* item's request was answered and, on status 200, its upload was made (the
\* audio is in storage whenever the upload returned; an upload that raised
\* leaves the item without reference); storage holds audio only for answered
\* items with status 200, under <id>.mp3.
C23_OneRequestInFlight ==
    /\ Cardinality(in_flight) <= 1
    /\ in_flight # {} =>
          /\ pc = "synth_wait"
          /\ in_flight = {narrations[synth_i].k}
          /\ PreviousAnswered
          /\ \A j \in 1..Len(attempts) :
                attempts[j].outcome = "ok" => ClaimedPath(attempts[j].id) \in stored
    /\ stored \subseteq {ClaimedPath(attempts[j].id) :
                            j \in {k \in 1..Len(attempts) : Status200(attempts[k].outcome)}}

\* C23 witness: the third request is in flight after a stored first item and
\* a second item whose request returned another status
C23_Witness ==
    /\ in_flight # {}
    /\ synth_i = 3
    /\ attempts[1].outcome = "ok"
    /\ attempts[2].outcome = "non200"
    /\ stored = {ClaimedPath(narrations[1].k)}

\* the positions of a token in a text
Positions(h, tok) == {i \in 1..Len(h) : h[i] = tok}

\* the least and the greatest element of a non-empty set of positions
FirstOf(S) == CHOOSE i \in S : \A j \in S : i <= j
LastOf(S) == CHOOSE i \in S : \A j \in S : j <= i

\* the closing tags of the claim, in its order: each one only when its
\* opening tag is present and not closed
ClaimedClosingTags(b) ==
    (IF Cardinality(Positions(b, "<script>")) > Cardinality(Positions(b, "</script>"))
        THEN <<"</script>">> ELSE <<>>)
    \o (IF Positions(b, "<body>") # {} /\ Positions(b, "</body>") = {}
        THEN <<"</body>">> ELSE <<>>)
    \o (IF Positions(b, "<html>") # {} /\ Positions(b, "</html>") = {}
        THEN <<"</html>">> ELSE <<>>)

\* the text without its line breaks
NoLineBreaks(h) == SelectSeq(h, LAMBDA t : t # "\n")

\* the outcome the claim gives for a fence-stripped text
ClaimedDocument(h) ==
    IF Positions(h, "<!DOCTYPE html>") = {}
    THEN [kind |-> "raise", exc |-> "HTMLGenerationError", html |-> <<>>]
    ELSE LET b == SubSeq(h, FirstOf(Positions(h, "<!DOCTYPE html>")), Len(h))
         IN  IF Positions(b, "</html>") # {}
             THEN [kind |-> "return", exc |-> "",
                   html |-> SubSeq(b, 1, LastOf(Positions(b, "</html>")))]
             ELSE IF ClaimedClosingTags(b) = <<>>
             THEN [kind |-> "raise", exc |-> "HTMLGenerationError", html |-> <<>>]
             ELSE [kind |-> "return", exc |-> "",
                   html |-> b \o ClaimedClosingTags(b)]

\* C24 (SpecHtml): for a text the collaborator returned, after fence
\* stripping: without the leading token the call raises HTMLGenerationError,
\* otherwise what precedes its first occurrence is dropped; what follows the
\* last closing token is dropped; without a closing token the closing tags
\* </script>, </body>, </html> are appended in that order, each only when its
\* opening tag is present and not closed, and the call raises
\* HTMLGenerationError exactly when none was appended.
C24_LocateOrRepair ==
    (pc = "returned" /\ ~llm_raw.raises) =>
        LET claimed == ClaimedDocument(StripFences(llm_raw.text))
        IN  /\ html_result.kind = claimed.kind
            /\ html_result.exc = claimed.exc
            /\ NoLineBreaks(html_result.html) = claimed.html

\* C24 witness: text before the leading token was dropped and two closing
\* tags were appended, </body> before </html>
C24_Witness ==
    /\ pc = "returned"
    /\ llm_raw.text = <<"x", "<!DOCTYPE html>", "<html>", "<body>">>
    /\ html_result.kind = "return"
    /\ NoLineBreaks(html_result.html)
          = <<"<!DOCTYPE html>", "<html>", "<body>", "</body>", "</html>">>

\* C25 (SpecHtml): one invocation of generate_html makes exactly one
\* text-generation call, and it ends either by returning a document or by
\* HTMLGenerationError, also when the collaborator raised.
C25_OneCallOneErrorType ==
    pc = "returned" =>
        /\ llm_calls = 1
        /\ html_result.kind \in {"return", "raise"}
        /\ html_result.kind = "raise" => html_result.exc = "HTMLGenerationError"
        /\ llm_raw.raises => html_result.kind = "raise"

\* C25 witness: the collaborator raised and the call ended by HTMLGenerationError
C25_Witness ==
    /\ pc = "returned"
    /\ llm_raw.raises
    /\ llm_calls = 1
    /\ html_result = [kind |-> "raise", exc |-> "HTMLGenerationError", html |-> <<>>]

\* the last get_manifest call made so far
LastCall == manifest_calls[Len(manifest_calls)]

\* C28 (SpecCache): a get_manifest call whose load failed raises to its
\* caller and leaves the cache empty, and the call that follows a failed one
\* asks the storage again; when that load succeeds it returns the catalog
\* the storage holds at that moment.
C28_FailedLoadNotCached ==
    /\ [](Len(manifest_calls) > 0 /\ LastCall.raised
             => /\ LastCall.load_issued
                /\ ~manifest_cache.loaded
                /\ response = ServiceUnavailable)
    /\ [][(Len(manifest_calls') = Len(manifest_calls) + 1
            /\ Len(manifest_calls) > 0 /\ LastCall.raised)
             => /\ LastCall'.load_issued
                /\ ~LastCall'.raised => LastCall'.models = manifest]_vars

\* C28 witness: a failed load was followed by a call that loaded the catalog
\* the storage held by then
C28_Witness ==
    /\ Len(manifest_calls) = 2
    /\ manifest_calls[1].raised
    /\ manifest_calls[2].load_issued /\ ~manifest_calls[2].raised
    /\ manifest_calls[2].models = manifest
    /\ manifest # <<>>
    /\ manifest_cache.loaded

\* the loads that ended with a manifest
LoadsCompleted == {k \in 1..Len(loads) : loads[k].state = "ok"}

\* C26 (SpecConc): once a manifest cache has been populated no operation
\* resets it to empty; while a cache is still empty concurrent callers can
\* each pass the emptiness check and each issue a load, so that a state with
\* two loads for one process is reachable (the witness).
C26_PopulatedNeverReset ==
    [][\A s \in 1..Len(caches) :
          caches[s].loaded => (Len(caches') >= s /\ caches'[s].loaded)]_vars

\* C26 witness: two concurrent requests have each passed the emptiness check
\* of the cache they were given and each issued a load that returned a
\* manifest: two loads in one process, neither request yet finished
C26_Witness ==
    /\ Len(loads) = 2
    /\ loads[1].by # loads[2].by
    /\ loads[1].state = "ok" /\ loads[2].state = "ok"
    /\ \A r \in Requests : reqs[r].got /\ reqs[r].pc = "synthesize"

\* the first load that completed (loads complete in the order of issue)
FirstCompleted == CHOOSE k \in LoadsCompleted : \A j \in LoadsCompleted : k <= j

\* C27: the manifest every get_manifest caller receives is the one written
\* by the first load that completed.
C27_FirstWriterWins ==
    \A r \in Requests :
        reqs[r].got => reqs[r].manifest = loads[FirstCompleted].models

\* C29: at most one Services object is created, and all requests that have
\* resolved get_services hold the same one.
C29_OneServicesObject ==
    /\ Len(caches) <= 1
    /\ \A r1, r2 \in Requests :
          (reqs[r1].services # NoServices /\ reqs[r2].services # NoServices)
             => reqs[r1].services = reqs[r2].services

\* C30: the audio stored under a reference handed to a request is the audio
\* synthesized from that request's narration.
C30_StoredAudioIsOwn ==
    \A r \in Requests :
        reqs[r].ref # <<>> =>
            DictGet(audio_files, StoredPath(local_mode, AudioFilename(reqs[r].item)))
               = AudioOf(r)




====
